---- MODULE Spec2Model ----
(***************************************************************************)
(* A model of the invoice extraction and reconciliation engine.            *)
(*                                                                         *)
(* Money: values computed from line items are whole cents (the code rounds *)
(* them to 2 decimals); values read from the document are kept in mills    *)
(* (1/1000 of a currency unit) because extract_totals_from_tokens stores   *)
(* float(val_str) unrounded.  round(x, 2) is modelled as round-half-even   *)
(* on the exact value.                                                     *)
(***************************************************************************)
EXTENDS Integers, Sequences, FiniteSets, TLC

VARIABLES
    \* build_response (postprocess.py):
    \*   pc "start" | "done"; rows: table["rows"], a sequence of
    \*   [qty, unitPrice, gstRate]; extracted: extracted_totals as [isNone, d];
    \*   pos: placeOfSupply is truthy; intra: the invoice is intra-state (the
    \*   supplier's state is the place of supply), which build_response does
    \*   not read; totals: the TotalsInfo, or NoTotals
    rc,
    \* tokens_from_fulltext / group_rows (invoice_extractor.py):
    \*   pc "start" | "group" | "done"; fullText: the OCR token list handed in;
    \*   tokens: toks; i: index of the next token of the group_rows loop;
    \*   rows: rows
    gr,
    \* compute_bounds / assign_cols (invoice_extractor.py):
    \*   pc "start" | "bounds" | "done"; header: the leftX values of the anchor
    \*   row; bounds: the column bounds; cx: centerX of a token of a later row;
    \*   col: the column assign_cols puts that token in (0: not yet assigned)
    bn,
    \* find_header_soft (invoice_extractor.py):
    \*   pc: the strategy to try next, or "done"; rows: the rows handed in;
    \*   result: (header_idx, start_parse_idx), NoIdx for None
    hd,
    \* extract_invoice_structured (invoice_extractor.py) and transform_invoice
    \* (invoice_transformer.py):
    \*   pc: the statement reached; ocr: the OCR response handed in (kind and
    \*   fullText); via: the function the caller called; call: the number of
    \*   the call of extract_invoice_structured; tokens, rows, header, items:
    \*   the locals; tableItems, ranTable, ranFallback, parsed: what parse_table
    \*   returned, which parsers ran and the items before postprocessing; out:
    \*   the dict returned; first: the dict the first call returned; exc: the
    \*   exception raised; result: what transform_invoice returns
    ex,
    \* parse_table (invoice_extractor.py), row by row:
    \*   pc "start" | "row" | "transposed" | "done"; rows, header: the rows
    \*   and the anchor handed in; bounds, transposed: the column bounds and
    \*   is_transposed; i: the row the loop is at, counted from 0; pending:
    \*   pending_desc_rows, as row numbers; items: the items, each with the
    \*   row it was made of, the rows buffered for it and its description;
    \*   buffered, skipped: the rows ever buffered and the rows passed over
    tb,
    \* parse_items_fallback (invoice_extractor.py), line by line:
    \*   pc "start" | "line" | "done"; rows: the rows handed in; filtered: the
    \*   lines longer than one character; i: the line the loop is at, counted
    \*   from 0; items: the items, each with the first and the last line of
    \*   filtered it was made of
    fb,
    \* parse (app.py), the loop over the pages:
    \*   pc "page" | "done"; upload: whether the upload is a PDF, and its
    \*   pages; page_idx: the page the loop is at; all_tokens: the pages whose
    \*   tokens were collected; all_warnings: the pages warned about; outcome:
    \*   "noText" (HTTP 422), "badQuality" or "response"
    ap,
    \* is_transposed_table (invoice_extractor.py):
    \*   pc "start" | "compare" | "done"; rows, start_idx, end_idx: the
    \*   arguments; col_positions: the sampled rows; result: the value returned
    tr,
    \* try_fix_unit_tax on one item: pc, item (the argument), result, outcome (which return was taken)
    fx,
    \* the seller and buyer GSTIN: pc, rows, top, mid, seller, buyer of extract_invoice_structured; layout, layout_seller, layout_buyer of parse_header_blocks
    gs,
    \* the invoice date of parse_header_blocks: pc, tokens, date_match, value, raw
    dt,
    \* the rows of a multi-page parse: pc, pages, page_idx, page_rows, all_rows, lines
    rw,
    \* get_ocr (ocr_engine.py), called by concurrent request handlers:
    \*   _OCR: the module global, NoEngine for None, else the number of the
    \*   instance; made: the number of PaddleOCR instances constructed so far;
    \*   pc, of each thread: "idle" | "test" | "construct" | "return"; calls: the
    \*   number of calls the thread has begun; returned: the instances that
    \*   calls have returned
    oc

vars == <<rc, gr, bn, hd, ex, tb, fb, ap, tr, fx, gs, dt, rw, oc>>

-----------------------------------------------------------------------------
(* Generic helpers *)

Abs(x) == IF x < 0 THEN -x ELSE x

\* A dict of amounts is a record over all its possible keys; a key the dict
\* does not hold carries Absent (the amount patterns match no minus sign, so
\* every stored amount is >= 0).
Absent == -1

\* k in d
Has(d, k) == d[k] # Absent

\* dict.get(k, default)
Get(d, k, default) == IF Has(d, k) THEN d[k] ELSE default

\* round(n / d) to the nearest integer, ties to even (d > 0)
RoundDiv(n, d) ==
    LET q == n \div d
        r == n % d
    IN  IF 2 * r < d THEN q
        ELSE IF 2 * r > d THEN q + 1
        ELSE IF q % 2 = 0 THEN q ELSE q + 1

\* round(x, 2) of a value in mills, result in mills
Round2(m) == 10 * RoundDiv(m, 10)

RECURSIVE SumSeq(_)
SumSeq(s) == IF s = <<>> THEN 0 ELSE Head(s) + SumSeq(Tail(s))

\* list.sort / sorted: a stable sort of s; lt[i][j] says that the key of s[i]
\* is smaller than the key of s[j]
\* the sequence f[1], ..., f[k]
RECURSIVE SeqOf(_, _)
SeqOf(f, k) == IF k = 0 THEN <<>> ELSE Append(SeqOf(f, k - 1), f[k])

StableSort(s, lt) ==
    LET n == Len(s)
        pos == SeqOf([i \in 1..n |-> 1 + Cardinality({ j \in 1..n :
                        lt[j][i] \/ (~lt[i][j] /\ j < i) })], n)
    IN  SeqOf([p \in 1..n |-> s[CHOOSE i \in 1..n : pos[i] = p]], n)

\* sorted(s) of a sequence of integers
SortInts(s) ==
    StableSort(s, [i \in DOMAIN s |-> [j \in DOMAIN s |-> s[i] < s[j]]])

\* [f(x) for x in s if keep(x)]
RECURSIVE FilterSeq(_, _)
FilterSeq(s, keep) ==
    IF s = <<>> THEN <<>>
    ELSE IF keep[Head(s)] THEN <<Head(s)>> \o FilterSeq(Tail(s), keep)
    ELSE FilterSeq(Tail(s), keep)

-----------------------------------------------------------------------------
(* invoice_extractor.py: tokens_from_fulltext, group_rows *)

PageJump == 1000    \* a backward jump of centerY larger than this starts a page

\* page numbers of toks, in list order: page_num after the first k tokens
RECURSIVE PageAfter(_, _)
PageAfter(toks, k) ==
    IF k = 0 THEN 0
    ELSE IF k = 1 THEN 0     \* prev_cy = -1: no jump before the first token
    ELSE PageAfter(toks, k - 1)
         + (IF toks[k - 1].cy > 0 /\ toks[k].cy < toks[k - 1].cy - PageJump
            THEN 1 ELSE 0)

TokLtAnyPage(a, b) == a.cy < b.cy \/ (a.cy = b.cy /\ a.left < b.left)
\* toks.sort(key=lambda t: (t.get("page", 0), t["cy"], t["left"]))
TokLt(a, b) ==
    \/ a.page < b.page
    \/ a.page = b.page /\ a.cy < b.cy
    \/ a.page = b.page /\ a.cy = b.cy /\ a.left < b.left

\* tokens_from_fulltext(fullText): an entry of fullText is [text, cx, cy, left]
\* (cx, cy: bbox_center; left: bbox_left); text "" stands for an entry that is
\* dropped (empty text or no bbox).
tokens_from_fulltext(fullText) ==
    LET withIdx == [i \in DOMAIN fullText |->
                      [text |-> fullText[i].text, cx |-> fullText[i].cx,
                       cy |-> fullText[i].cy, left |-> fullText[i].left,
                       idx |-> i - 1]]
        toks    == FilterSeq(withIdx,
                       [t \in { withIdx[i] : i \in DOMAIN withIdx } |-> t.text # ""])
        paged   == SeqOf([k \in DOMAIN toks |->
                      [text |-> toks[k].text, cx |-> toks[k].cx, cy |-> toks[k].cy,
                       left |-> toks[k].left, idx |-> toks[k].idx,
                       page |-> PageAfter(toks, k)]], Len(toks))
    IN  StableSort(paged, [i \in DOMAIN paged |-> [j \in DOMAIN paged |->
                                TokLt(paged[i], paged[j])]])

\* 2 * median(values), values a non-empty sequence of integers
Median2(values) ==
    LET srt == SortInts(values)
        n   == Len(srt)
    IN  IF n % 2 = 1 THEN 2 * srt[(n + 1) \div 2]
        ELSE srt[n \div 2] + srt[n \div 2 + 1]

RowCys(row) == [k \in DOMAIN row |-> row[k].cy]

\* the test of group_rows: abs(t["cy"] - med) <= y_tol
JoinsRowNoAbs(row, t, y_tol) == 2 * t.cy - Median2(RowCys(row)) <= 2 * y_tol
JoinsRow(row, t, y_tol) == Abs(2 * t.cy - Median2(RowCys(row))) <= 2 * y_tol

\* one iteration of the loop of group_rows
GroupAdd(rows, t, y_tol) ==
    IF rows = <<>> THEN << <<t>> >>
    ELSE IF JoinsRow(rows[Len(rows)], t, y_tol)
         THEN [rows EXCEPT ![Len(rows)] = Append(@, t)]
         ELSE Append(rows, <<t>>)

LeftLt(a, b) == a.left < b.left

\* r.sort(key=lambda x: x["left"])
SortRowNot(row) == row
SortRow(row) ==
    StableSort(row, [i \in DOMAIN row |-> [j \in DOMAIN row |->
                        LeftLt(row[i], row[j])]])

RECURSIVE GroupLoop(_, _, _)
GroupLoop(rows, tokens, y_tol) ==
    IF tokens = <<>> THEN rows
    ELSE GroupLoop(GroupAdd(rows, Head(tokens), y_tol), Tail(tokens), y_tol)

\* group_rows(tokens, y_tol)
group_rows(tokens, y_tol) ==
    LET rows == GroupLoop(<<>>, tokens, y_tol)
    IN  [r \in DOMAIN rows |-> SortRow(rows[r])]

YTol == 16      \* extract_invoice_structured passes y_tol=16.0

(* Inputs *)

MaxTokens == 3

CyChoices == {100, 116, 124, 1500}
LeftChoices == {10, 50}

RawChoices ==
    { [text |-> "Cement", cx |-> l + 20, cy |-> y, left |-> l] :
        y \in CyChoices, l \in LeftChoices }
    \cup { [text |-> "", cx |-> 30, cy |-> 100, left |-> 10] }

GrStart ==
    { [pc |-> "start", fullText |-> f, tokens |-> <<>>, i |-> 1, rows |-> <<>>] :
        f \in UNION { [1..k -> RawChoices] : k \in 0..MaxTokens } }

\* the state of this part while another part of the engine is examined
GrIdle == [pc |-> "idle", fullText |-> <<>>, tokens |-> <<>>, i |-> 1, rows |-> <<>>]

\* tokens = tokens_from_fulltext(fullText)
Tokenize ==
    /\ gr.pc = "start"
    /\ gr' = [gr EXCEPT !.tokens = tokens_from_fulltext(gr.fullText),
                        !.pc = "group"]

\* for t in tokens: ... (one iteration)
GroupStep ==
    /\ gr.pc = "group"
    /\ gr.i <= Len(gr.tokens)
    /\ gr' = [gr EXCEPT !.rows = GroupAdd(gr.rows, gr.tokens[gr.i], YTol),
                        !.i = gr.i + 1]

\* for r in rows: r.sort(...); return rows
GroupSort ==
    /\ gr.pc = "group"
    /\ gr.i > Len(gr.tokens)
    /\ gr' = [gr EXCEPT !.rows = [r \in DOMAIN gr.rows |-> SortRow(gr.rows[r])],
                        !.pc = "done"]

GrNext == (Tokenize \/ GroupStep \/ GroupSort) /\ UNCHANGED <<rc, bn, hd, ex, tb, fb, ap, tr, fx, gs, dt, rw, oc>>

-----------------------------------------------------------------------------
(* invoice_extractor.py: compute_bounds, assign_cols.  Horizontal positions
   are in half pixels, so that the midpoints (a + b) / 2.0 are integers. *)

ExpandPx == 24          \* expand_px=12
MinColWidth == 120      \* bounds narrower than 60 px are merged
FarLeft == -2000000     \* -1e6
FarRight == 2000000     \* 1e6
MinHeaderTokens == 3    \* fewer tokens: single column fallback

\* mids: (a + b) / 2.0 for consecutive sorted leftX values (given in half
\* pixels, the midpoint of 2a and 2b is a + b)
Mids(xs) == [k \in 1..(Len(xs) - 1) |-> (xs[k] + xs[k + 1]) \div 2]

\* bounds before merging: (left - expand_px, m + expand_px) per midpoint, left
\* starting at -1e6, and a last bound up to 1e6
RawBounds(mids) ==
    [k \in 1..(Len(mids) + 1) |->
        [l |-> (IF k = 1 THEN FarLeft ELSE mids[k - 1]) - ExpandPx,
         r |-> IF k = Len(mids) + 1 THEN FarRight ELSE mids[k] + ExpandPx]]

\* merged[-1] = (pl, r)
MergeTinyDropped(prev, cur) == prev
MergeTiny(prev, cur) == [l |-> prev.l, r |-> cur.r]

\* the merge loop: a bound narrower than 60 px is merged into the one before
RECURSIVE MergeBounds(_, _)
MergeBounds(merged, rest) ==
    IF rest = <<>> THEN merged
    ELSE LET b == Head(rest)
         IN  IF merged = <<>> THEN MergeBounds(<<b>>, Tail(rest))
             ELSE IF b.r - b.l < MinColWidth
                  THEN MergeBounds([merged EXCEPT ![Len(merged)] = MergeTiny(@, b)],
                                   Tail(rest))
                  ELSE MergeBounds(Append(merged, b), Tail(rest))

\* compute_bounds(header_row): xs are the leftX values of the row's tokens
compute_bounds(xs) ==
    IF Len(xs) < MinHeaderTokens
    THEN << [l |-> FarLeft, r |-> FarRight] >>
    ELSE MergeBounds(<<>>, RawBounds(Mids(SortInts(xs))))

\* the columns whose bound holds cx
Holding(bounds, cx) == { k \in DOMAIN bounds : bounds[k].l <= cx /\ cx <= bounds[k].r }

\* |cx - (l + r) / 2.0|, doubled
MidDist2(b, cx) == Abs(2 * cx - (b.l + b.r))

\* assign_cols, for one token: the first bound holding cx, else the first of
\* the bounds whose midpoint is nearest
assign_col(bounds, cx) ==
    IF Holding(bounds, cx) # {}
    THEN CHOOSE k \in Holding(bounds, cx) : \A j \in Holding(bounds, cx) : k <= j
    ELSE CHOOSE k \in DOMAIN bounds :
            /\ \A j \in DOMAIN bounds : MidDist2(bounds[k], cx) <= MidDist2(bounds[j], cx)
            /\ \A j \in 1..(k - 1) : MidDist2(bounds[j], cx) > MidDist2(bounds[k], cx)

(* Inputs *)

MaxHeaderTokens == 4

\* leftX values of anchor-row tokens (0, 40, 60, 200, 300 px)
HeaderLefts == {0, 80, 120, 400, 600}

\* centerX values of tokens of later rows: a 2 px grid over the page (it holds
\* every edge the bounds of those headers can have) and both far ends
ProbeCxs ==
    { 4 * n : n \in -8..176 } \cup {FarLeft - ExpandPx - 1, FarLeft - ExpandPx, FarLeft,
                                    FarRight, FarRight + 1}

\* rows come out of group_rows sorted by leftX
BnStart ==
    { [pc |-> "start", header |-> h, bounds |-> <<>>, cx |-> 0, col |-> 0] :
        h \in { x \in UNION { [1..k -> HeaderLefts] : k \in 0..MaxHeaderTokens } :
                  \A k \in 1..(Len(x) - 1) : x[k] <= x[k + 1] } }

\* the state of this part while another part of the engine is examined
BnIdle == [pc |-> "idle", header |-> <<>>, bounds |-> <<>>, cx |-> 0, col |-> 0]

\* bounds = compute_bounds(header_row)
ComputeBounds ==
    /\ bn.pc = "start"
    /\ bn' = [bn EXCEPT !.bounds = compute_bounds(bn.header), !.pc = "bounds"]

\* cols = assign_cols(row, bounds), for a token of the row
AssignCols ==
    /\ bn.pc = "bounds"
    /\ \E cx \in ProbeCxs :
          bn' = [bn EXCEPT !.cx = cx, !.col = assign_col(bn.bounds, cx), !.pc = "done"]

BnNext == (ComputeBounds \/ AssignCols) /\ UNCHANGED <<rc, gr, hd, ex, tb, fb, ap, tr, fx, gs, dt, rw, oc>>

-----------------------------------------------------------------------------
(* reconcile.py *)

TotalsKeys == {"taxable", "net", "tax", "gross", "round_off", "cgst", "sgst", "igst"}

EmptyDict == [k \in TotalsKeys |-> Absent]

\* bool(d) of a dict: it holds at least one key
Truthy(d) == \E k \in TotalsKeys : Has(d, k)

\* compute_line_totals(qty, rate, gst): cents; gst in percent
compute_line_totals(qty, rate, gst) ==
    LET net == qty * rate
        tax == RoundDiv(net * gst, 100)
    IN  [net |-> net, tax |-> tax, gross |-> net + tax]

\* recompute_and_summarize(rows): totals in mills (each a whole number of cents)
recompute_and_summarize(rows) ==
    LET lt(i) == compute_line_totals(rows[i].qty, rows[i].unitPrice, rows[i].gstRate)
    IN  [net   |-> 10 * SumSeq([i \in DOMAIN rows |-> lt(i).net]),
         tax   |-> 10 * SumSeq([i \in DOMAIN rows |-> lt(i).tax]),
         gross |-> 10 * SumSeq([i \in DOMAIN rows |-> lt(i).gross]),
         cgst  |-> 0, sgst |-> 0, igst |-> 0]

ReconcileTolerance == 1000   \* tolerance=1.0, in mills

\* reconcile_totals(computed_totals, extracted_totals): <<reconciled, round_off_delta>>
reconcile_totals(computed, extracted) ==
    IF Truthy(extracted)
    THEN LET delta == Round2(Get(extracted, "gross", 0) - computed.gross)
         IN  <<Abs(delta) <= ReconcileTolerance, delta>>
    ELSE <<TRUE, 0>>

\* the taxes of an odd number of cents (in mills) of which round(tax / 2, 2)
\* is the cent above tax / 2: half an odd number of cents lies between two
\* cents, and round() goes by the binary value of the float, which is above
\* the half cent for these and below it for 0.03, 0.09, 0.15 and 36.05
HalfRoundsUp == {50, 110, 130, 18030, 18050, 36030}

\* round(tax / 2, 2), in mills
RoundHalf(tax) ==
    IF tax % 20 # 10 THEN 10 * RoundDiv(tax, 20)
    ELSE IF tax \in HalfRoundsUp THEN (tax + 10) \div 2
    ELSE (tax - 10) \div 2

\* split_tax_breakdown(totals, place_of_supply)
split_tax_breakdown(totals, pos) ==
    IF pos
    THEN [totals EXCEPT !.igst = totals.tax, !.cgst = 0, !.sgst = 0]
    ELSE [totals EXCEPT !.cgst = RoundHalf(totals.tax),
                        !.sgst = RoundHalf(totals.tax),
                        !.igst = 0]

-----------------------------------------------------------------------------
(* postprocess.py: build_response, the totals part *)

NoTotals == [built |-> FALSE]

\* build_response(header, table, ..., extracted_totals): the TotalsInfo.
\* ext.isNone models extracted_totals=None; ext.d is the dict otherwise.
build_response(rows, ext, pos) ==
    LET computed == recompute_and_summarize(rows)
        given    == (~ext.isNone) /\ Truthy(ext.d)
        \* "taxable" is copied to "net"
        e        == IF given /\ Has(ext.d, "taxable")
                    THEN [ext.d EXCEPT !["net"] = ext.d["taxable"]]
                    ELSE ext.d
        fromDoc  == [net   |-> Get(e, "net", computed.net),
                     tax   |-> Get(e, "tax", computed.tax),
                     gross |-> Get(e, "gross", computed.gross),
                     cgst  |-> Get(e, "cgst", 0),
                     sgst  |-> Get(e, "sgst", 0),
                     igst  |-> Get(e, "igst", 0)]
        printed  == \E k \in {"cgst", "sgst", "igst"} : Has(e, k)
        totals   == IF given
                    THEN IF printed THEN fromDoc ELSE split_tax_breakdown(fromDoc, pos)
                    ELSE split_tax_breakdown(computed, pos)
        rec      == reconcile_totals(computed, IF given THEN e ELSE EmptyDict)
        roundOff == IF given /\ Has(e, "round_off") THEN e["round_off"] ELSE rec[2]
    IN  [built |-> TRUE,
         net |-> totals.net, tax |-> totals.tax, gross |-> totals.gross,
         cgst |-> totals.cgst, sgst |-> totals.sgst, igst |-> totals.igst,
         reconciled |-> rec[1], roundOffDelta |-> roundOff,
         computedGross |-> computed.gross]

-----------------------------------------------------------------------------
(* Inputs of build_response *)

MaxLines == 2

\* qty.value, unitPrice.value (cents), gstRate.value (percent)
LineChoices ==
    { [qty |-> 1, unitPrice |-> 10000, gstRate |-> 18],
      [qty |-> 2, unitPrice |-> 50,    gstRate |-> 5],
      [qty |-> 3, unitPrice |-> 5,     gstRate |-> 18],
      [qty |-> 0, unitPrice |-> 10000, gstRate |-> 0] }

SeqsUpTo(S, n) == UNION { [1..k -> S] : k \in 0..n }

\* amounts a document can print, in mills
GrossChoices == {Absent, 0, 117000, 118000, 119000, 119004, 119010}

ExtractedChoices ==
    { [isNone |-> TRUE, d |-> EmptyDict] } \cup
    { [isNone |-> FALSE,
       d |-> [k \in TotalsKeys |->
                CASE k = "gross"     -> g
                  [] k = "taxable"   -> tx
                  [] k = "tax"       -> t
                  [] k = "round_off" -> ro
                  [] k = "cgst"      -> cg
                  [] k = "igst"      -> ig
                  [] OTHER           -> Absent]] :
        g \in GrossChoices, tx \in {Absent, 100000}, t \in {Absent, 18001},
        ro \in {Absent, 40}, cg \in {Absent, 9000}, ig \in {Absent, 18000} }

RcStart ==
    { [pc |-> "start", rows |-> rows, extracted |-> e, pos |-> p, intra |-> s,
       totals |-> NoTotals] :
        rows \in SeqsUpTo(LineChoices, MaxLines), e \in ExtractedChoices,
        p \in BOOLEAN, s \in BOOLEAN }

BuildResponse ==
    /\ rc.pc = "start"
    /\ rc' = [rc EXCEPT !.totals = build_response(rc.rows, rc.extracted, rc.pos),
                        !.pc = "done"]

RcNext == BuildResponse /\ UNCHANGED <<gr, bn, hd, ex, tb, fb, ap, tr, fx, gs, dt, rw, oc>>

\* the state of this part while another part of the engine is examined
RcIdle ==
    [pc |-> "idle", rows |-> <<>>, extracted |-> [isNone |-> TRUE, d |-> EmptyDict],
     pos |-> FALSE, intra |-> FALSE, totals |-> NoTotals]

-----------------------------------------------------------------------------
(* invoice_extractor.py: find_header_soft.  Row indices are the code's,
   counted from 0: rows[i] of the code is rows[i + 1] here.  Token texts are
   taken from a vocabulary in which no keyword or number spans two tokens, so
   that what a regular expression finds in the joined text of a row is what it
   finds in the tokens of the row. *)

HEADER_KEYWORDS ==
    {"description", "hsn", "quantity", "qty", "rate", "amount", "unit price",
     "taxable"}

\* { k in HEADER_KEYWORDS : k in text.lower() }
KeywordsIn(text) ==
    CASE text = "Description" -> {"description"}
      [] text = "Description of Goods" -> {"description"}
      [] text = "HSN/SAC" -> {"hsn"}
      [] text = "Quantity" -> {"quantity"}
      [] text = "Rate" -> {"rate"}
      [] text = "Amount" -> {"amount"}
      [] text = "Invoice Amount In Words" -> {"amount"}
      [] OTHER -> {}

\* "quantity" in text or "hsn/sac" in text or "hsn code" in text
StrongIn(text) == text \in {"Quantity", "HSN/SAC"}

\* "description of goods" in text or "item name" in text
LabelIn(text) == text = "Description of Goods"

\* len(re.findall(r'\d+\.\d{2}|\d+\s*(?:PCS|Bag|KG)', text, re.I))
NumericIn(text) ==
    IF text \in {"149 Bag", "263.00", "39,187.00", "39187.00", "0.00"} THEN 1
    ELSE 0

\* len(re.findall(r'\d+\.\d{2}', text))
DecimalsIn(text) ==
    IF text \in {"263.00", "39,187.00", "39187.00", "0.00"} THEN 1 ELSE 0

RowTexts(row) == [k \in DOMAIN row |-> row[k].text]

Range(s) == { s[k] : k \in DOMAIN s }

\* score = sum(1 for k in HEADER_KEYWORDS if k in text)
Score(row) ==
    Cardinality(HEADER_KEYWORDS
                  \cap UNION { KeywordsIn(row[k].text) : k \in DOMAIN row })

HasStrongKeyword(row) == \E k \in DOMAIN row : StrongIn(row[k].text)

HasLabel(row) == \E k \in DOMAIN row : LabelIn(row[k].text)

numeric_count(row) == SumSeq([k \in DOMAIN row |-> NumericIn(row[k].text)])

AmountCount(row) == SumSeq([k \in DOMAIN row |-> DecimalsIn(row[k].text)])

Min(S) == CHOOSE x \in S : \A y \in S : x <= y

Lesser(a, b) == IF a < b THEN a ELSE b

KeywordWindow == 30     \* rows[:30]
StrongWindow == 50      \* rows[:50]
LabelWindow == 40       \* rows[:40]
StrongLookahead == 10   \* range(i + 1, min(i + 10, len(rows)))
LabelLookahead == 8     \* range(i + 1, min(i + 8, len(rows)))
AmountsFrom == 10       \* rows[10:50]
ProxyFrom == 8          \* rows[8:50]
ScanEnd == 50           \* rows[10:50], rows[8:50]
NoIdx == -1             \* None

\* the indices of rows[lo:hi]
Slice(rows, lo, hi) == lo .. (Lesser(hi, Len(rows)) - 1)

\* range(i + 1, min(i + n, len(rows)))
Lookahead(rows, i, n) == (i + 1) .. (Lesser(i + n, Len(rows)) - 1)

NoHeaderFound == [found |-> FALSE, header_idx |-> NoIdx, start_parse_idx |-> NoIdx]

Found(h, s) == [found |-> TRUE, header_idx |-> h, start_parse_idx |-> s]

IsKeywordHeaderNoLen(row) == Score(row) >= 2

\* score >= 2 and len(row) >= 3
IsKeywordHeader(row) == Score(row) >= 2 /\ Len(row) >= 3

\* Strategy 1
Strategy1(rows) ==
    LET hits == { i \in Slice(rows, 0, KeywordWindow) : IsKeywordHeader(rows[i + 1]) }
    IN  IF hits = {} THEN NoHeaderFound ELSE Found(Min(hits), Min(hits) + 1)

\* numeric_count >= 2 and len(rows[j]) >= 3
IsDataRow(row) == numeric_count(row) >= 2 /\ Len(row) >= 3

DataRowsAfter(rows, i) ==
    { j \in Lookahead(rows, i, StrongLookahead) : IsDataRow(rows[j + 1]) }

parse_start_past_data(i, j) == j + 2
\* parse_start = i + 1, for the keyword row i and the data row j
parse_start(i, j) == i + 1

\* Strategy 2: a row without a data row after it and with fewer than 3
\* tokens is passed over
Strategy2(rows) ==
    LET hits == { i \in Slice(rows, 0, StrongWindow) :
                    /\ HasStrongKeyword(rows[i + 1])
                    /\ \/ DataRowsAfter(rows, i) # {}
                       \/ Len(rows[i + 1]) >= 3 }
        i == Min(hits)
    IN  IF hits = {} THEN NoHeaderFound
        ELSE IF DataRowsAfter(rows, i) # {}
             THEN Found(Min(DataRowsAfter(rows, i)),
                        parse_start(i, Min(DataRowsAfter(rows, i))))
             ELSE Found(i, i + 1)

WideRowsAfter(rows, i) ==
    { j \in Lookahead(rows, i, LabelLookahead) : Len(rows[j + 1]) >= 4 }

\* Strategy 2b
Strategy2b(rows) ==
    LET hits == { i \in Slice(rows, 0, LabelWindow) : HasLabel(rows[i + 1]) }
        i == Min(hits)
    IN  IF hits = {} THEN NoHeaderFound
        ELSE IF WideRowsAfter(rows, i) # {}
             THEN Found(Min(WideRowsAfter(rows, i)),
                        parse_start(i, Min(WideRowsAfter(rows, i))))
             ELSE Found(i, i + 1)

\* Strategy 3
Strategy3(rows) ==
    LET hits == { i \in Slice(rows, AmountsFrom, ScanEnd) :
                    /\ AmountCount(rows[i + 1]) >= 3
                    /\ Len(rows[i + 1]) >= 3 }
    IN  IF hits = {} THEN NoHeaderFound ELSE Found(Min(hits), Min(hits))

\* Strategy 4
Strategy4(rows) ==
    LET hits == { i \in Slice(rows, ProxyFrom, ScanEnd) :
                    Len(rows[i + 1]) >= 4 }
    IN  IF hits = {} THEN NoHeaderFound ELSE Found(Min(hits), Min(hits))

Strategies == <<"s1", "s2", "s2b", "s3", "s4", "none">>

StrategyResult(name, rows) ==
    CASE name = "s1" -> Strategy1(rows)
      [] name = "s2" -> Strategy2(rows)
      [] name = "s2b" -> Strategy2b(rows)
      [] name = "s3" -> Strategy3(rows)
      [] name = "s4" -> Strategy4(rows)
      [] OTHER -> NoHeaderFound

RECURSIVE FirstStrategy(_, _)
FirstStrategy(rows, k) ==
    IF k >= Len(Strategies) \/ StrategyResult(Strategies[k], rows).found
    THEN StrategyResult(Strategies[k], rows)
    ELSE FirstStrategy(rows, k + 1)

\* find_header_soft(rows)
find_header_soft(rows) == FirstStrategy(rows, 1)

(* Inputs: documents of one-line rows, a first part, a run of filler rows and
   a last part *)

RowKinds ==
    { <<"Cement">>,
      <<"Description", "Rate", "Amount">>,
      <<"Rate", "Amount">>,
      <<"Quantity">>,
      <<"Cement", "HSN/SAC", "Cement">>,
      <<"Description of Goods">>,
      <<"Cement", "263.00", "39,187.00">>,
      <<"Cement", "149 Bag", "263.00", "39,187.00">>,
      <<"263.00", "263.00", "39,187.00">> }

MaxPad == 30

FirstParts == { <<>> } \cup { <<a>> : a \in RowKinds }

LastParts == FirstParts \cup { <<a, b>> : a \in RowKinds, b \in RowKinds }

RowPitch == 40      \* vertical distance of the lines of a document
ColPitch == 200     \* horizontal distance of the cells of a line
CellHalf == 40      \* centerX - leftX of a token

\* the tokens of line r of a document, one token per cell
LineTokens(texts, r) ==
    [k \in DOMAIN texts |->
        [text |-> texts[k], cx |-> ColPitch * (k - 1) + CellHalf,
         cy |-> RowPitch * r, left |-> ColPitch * (k - 1),
         idx |-> 0, page |-> 0]]

Padded(first, pad, last) ==
    first \o [k \in 1..pad |-> <<"Cement">>] \o last

HdStart ==
    { [pc |-> "s1",
       rows |-> [r \in DOMAIN Padded(a, p, b) |-> LineTokens(Padded(a, p, b)[r], r)],
       result |-> NoHeaderFound] :
        a \in FirstParts, p \in 0..MaxPad, b \in LastParts }

HdIdle == [pc |-> "idle", rows |-> <<>>, result |-> NoHeaderFound]

\* one strategy of find_header_soft: return its row, or go on to the next
TryStrategy(name, next) ==
    /\ hd.pc = name
    /\ LET r == StrategyResult(name, hd.rows)
       IN  hd' = [hd EXCEPT !.result = r,
                            !.pc = IF r.found THEN "done" ELSE next]

TryKeywords == TryStrategy("s1", "s2")

TryStrongKeyword == TryStrategy("s2", "s2b")

TryLabel == TryStrategy("s2b", "s3")

TryAmounts == TryStrategy("s3", "s4")

TryWideRow == TryStrategy("s4", "none")

\* return (None, None)
ReturnNone ==
    /\ hd.pc = "none"
    /\ hd' = [hd EXCEPT !.result = NoHeaderFound, !.pc = "done"]

HdNext ==
    /\ \/ TryKeywords
       \/ TryStrongKeyword
       \/ TryLabel
       \/ TryAmounts
       \/ TryWideRow
       \/ ReturnNone
    /\ UNCHANGED <<rc, gr, bn, ex, tb, fb, ap, tr, fx, gs, dt, rw, oc>>

-----------------------------------------------------------------------------
(* invoice_extractor.py: the item parsers.  An item is modelled by its hsn,
   quantity, unitPrice and taxableValue; its description is not.  Amounts of
   items are in cents, Absent for None; a string that is None is "".  What
   the regular expressions of the parsers find in a token text is tabulated
   for the texts of the vocabulary. *)

\* re.search(r"\b(total|sub total|amount chargeable|round off|tax amount)\b", ...)
\* and the like patterns of the transposed and the fallback parser
TotalsMarkerIn(text) == text = "Total"

\* re.search(r"%|\bpercent\b", txt, re.IGNORECASE)
PercentIn(text) == text = "5%"

\* normalize_amount of the last match of
\* [0-9]{1,3}(?:,[0-9]{3})*(?:\.[0-9]{2})
GroupedAmountIn(text) ==
    CASE text = "263.00" -> 26300
      [] text = "39,187.00" -> 3918700
      [] text = "39187.00" -> 18700
      [] text = "0.00" -> 0
      [] OTHER -> Absent

\* the matches of \d+\.\d{2}, as amounts; a comma ends a match, and
\* "39,187.00" holds "187.00"
DecimalValuesIn(text) ==
    CASE text = "263.00" -> <<26300>>
      [] text = "39,187.00" -> <<18700>>
      [] text = "39187.00" -> <<3918700>>
      [] text = "0.00" -> <<0>>
      [] OTHER -> <<>>

\* normalize_amount of the last match of \d+\.\d+
LooseAmountIn(text) ==
    IF DecimalValuesIn(text) = <<>> THEN Absent
    ELSE DecimalValuesIn(text)[Len(DecimalValuesIn(text))]

\* re.search(r"\b(\d{4,8})\b", text): group(1), or ""
HsnIn(text) ==
    CASE text = "2520" -> "2520"
      [] text = "39187.00" -> "39187"
      [] OTHER -> ""

\* re.search(r"(\d{1,6})\s*(pcs|bag|kg|nos|pieces|units?)", text, re.I), as
\* parse_table formats it: group(1) + " " + group(2)
QtyUnitIn(text) == IF text = "149 Bag" THEN "149 Bag" ELSE ""

\* normalize_amount(text): every character but digits, '.' and '-' is dropped
NormalizeAmountOf(text) ==
    CASE text = "2520" -> 252000
      [] text = "149 Bag" -> 14900
      [] text = "263.00" -> 26300
      [] text = "39,187.00" -> 3918700
      [] text = "39187.00" -> 3918700
      [] text = "0.00" -> 0
      [] text = "5%" -> 500
      [] text = "1" -> 100
      [] OTHER -> Absent

\* parse_item_from_line, on s with ',' replaced by ' ':
\* re.search(r"(\d{1,6})\s*(PCS|Bag|KG|Nos|Pcs|pcs)?\b", s, re.I) formatted
\* as group(1) + (" " + (group(2) or "")).strip(), or ""
LineQtyIn(text) ==
    CASE text = "2520" -> "2520"
      [] text = "149 Bag" -> "149Bag"
      [] text = "263.00" -> "263"
      [] text = "39,187.00" -> "39"
      [] text = "39187.00" -> "39187"
      [] text = "0.00" -> "0"
      [] text = "5%" -> "5"
      [] text = "1" -> "1"
      [] OTHER -> ""

\* int(re.search(r'(\d+)', quantity).group(1)), 0 without a digit
QtyNumber(quantity) ==
    CASE quantity \in {"149 Bag", "149Bag"} -> 149
      [] quantity = "2520" -> 2520
      [] quantity \in {"263", "263.00"} -> 263
      [] quantity \in {"39", "39,187.00"} -> 39
      [] quantity \in {"39187", "39187.00"} -> 39187
      [] quantity \in {"5", "5%"} -> 5
      [] quantity = "1" -> 1
      [] OTHER -> 0

\* len(ln) > 1 fails
OneCharLine(texts) == texts = <<"1">>

Max(S) == CHOOSE x \in S : \A y \in S : y <= x

\* the last of vals that is not Absent
LastPresent(vals) ==
    LET S == { k \in DOMAIN vals : vals[k] # Absent }
    IN  IF S = {} THEN Absent ELSE vals[Max(S)]

\* the first of strs that is not ""
FirstText(strs) ==
    LET S == { k \in DOMAIN strs : strs[k] # "" }
    IN  IF S = {} THEN "" ELSE strs[Min(S)]

\* x is neither None nor 0
Nonzero(x) == x # Absent /\ x # 0

RowHolds(row, keyword) == \E k \in DOMAIN row : keyword \in KeywordsIn(row[k].text)

RowHasTotalsMarker(row) == \E k \in DOMAIN row : TotalsMarkerIn(row[k].text)

\* extract_amount_from_col(col)
extract_amount_from_col(col) ==
    IF \E k \in DOMAIN col : PercentIn(col[k].text) THEN Absent
    ELSE LET grouped == LastPresent([k \in DOMAIN col |-> GroupedAmountIn(col[k].text)])
         IN  IF grouped # Absent THEN grouped
             ELSE LastPresent([k \in DOMAIN col |-> LooseAmountIn(col[k].text)])

\* assign_cols(row, bounds)
assign_cols(row, bounds) ==
    [c \in DOMAIN bounds |->
        FilterSeq(row, [t \in Range(row) |-> assign_col(bounds, t.cx) = c])]

Item(hsn, quantity, unitPrice, taxableValue) ==
    [hsn |-> hsn, quantity |-> quantity, unitPrice |-> unitPrice,
     taxableValue |-> taxableValue]

\* the amount of a row of the table: the last column holding one
RowAmounts(row, bounds) ==
    [c \in DOMAIN bounds |-> extract_amount_from_col(assign_cols(row, bounds)[c])]

\* parse_table, the body of the loop for a row with an amount
TableItem(row, bounds) ==
    LET cols == assign_cols(row, bounds)
        amounts == RowAmounts(row, bounds)
        amount_idx == Max({ c \in DOMAIN cols : amounts[c] # Absent })
    IN  Item(FirstText([c \in DOMAIN cols |->
                          FirstText([k \in DOMAIN cols[c] |-> HsnIn(cols[c][k].text)])]),
             FirstText([c \in DOMAIN cols |->
                          FirstText([k \in DOMAIN cols[c] |-> QtyUnitIn(cols[c][k].text)])]),
             IF amount_idx >= 2 THEN amounts[amount_idx - 1] ELSE Absent,
             amounts[amount_idx])

\* rows[start_idx:] up to the first row with a totals marker (indices from 0)
RowsUntilTotals(rows, start_idx, end_idx) ==
    LET stops == { i \in (start_idx + 1)..Lesser(end_idx, Len(rows)) :
                     RowHasTotalsMarker(rows[i]) }
    IN  SubSeq(rows, start_idx + 1,
               IF stops = {} THEN Lesser(end_idx, Len(rows)) ELSE Min(stops) - 1)

PositionTol == 40       \* abs(a - b) < 20, in half pixels
TransposedMinRows == 3  \* end_idx - start_idx < 3
TransposedScan == 15    \* rows[start_idx:min(start_idx + 15, end_idx)]
TransposedSample == 5   \* stop after finding 5 multi-token rows
TableScan == 20         \* min(start_parse_idx + 20, len(rows))
FieldsBack == 10        \* rows[max(0, start_idx - 10):start_idx]
FieldsAhead == 30       \* rows[start_idx:min(start_idx + 30, len(rows))]

\* matches >= len(first_cols) * 0.8
PositionsMatch(first, cols) ==
    /\ Len(cols) = Len(first)
    /\ 5 * Cardinality({ p \in DOMAIN first :
                           Abs(first[p].left - cols[p].left) < PositionTol })
         >= 4 * Len(first)

\* col_positions: the first 5 rows of 3 or more tokens among
\* rows[start_idx:min(start_idx + 15, end_idx)]
SampledRows(rows, start_idx, end_idx) ==
    LET window == SubSeq(rows, start_idx + 1,
                         Lesser(start_idx + TransposedScan, end_idx))
        wide == FilterSeq(window, [r \in Range(window) |-> Len(r) >= 3])
    IN  SubSeq(wide, 1, Lesser(TransposedSample, Len(wide)))

\* matches_found, counting every pair of sampled rows
MatchesFoundAmongAll(col_positions) ==
    Cardinality({ pair \in (DOMAIN col_positions) \X (DOMAIN col_positions) :
                    /\ pair[1] < pair[2]
                    /\ PositionsMatch(col_positions[pair[1]], col_positions[pair[2]]) })
\* matches_found: the rows of col_positions[1:] that match col_positions[0]
MatchesFound(col_positions) ==
    Cardinality({ k \in 2..Len(col_positions) :
                    PositionsMatch(col_positions[1], col_positions[k]) })

\* is_transposed_table(rows, start_idx, end_idx)
is_transposed_table(rows, start_idx, end_idx) ==
    IF end_idx - start_idx < TransposedMinRows THEN FALSE
    ELSE /\ Len(SampledRows(rows, start_idx, end_idx)) >= 2
         /\ MatchesFound(SampledRows(rows, start_idx, end_idx)) >= 2

NoFields == [quantity |-> <<>>, rate |-> <<>>, amount |-> <<>>, hsn |-> <<>>]

\* len(re.findall(r'\d+\s*(?:PCS|Bag|KG|Nos|pcs|bag)', row_text, re.I))
UnitQuantities(row) ==
    Cardinality({ k \in DOMAIN row : QtyUnitIn(row[k].text) # "" })

\* amounts = re.findall(r'\d+\.\d{2}', row_text)
RowDecimals(row) ==
    [k \in 1..AmountCount(row) |->
        LET hits == { j \in DOMAIN row : DecimalValuesIn(row[j].text) # <<>> }
            j == CHOOSE j \in hits : Cardinality({ h \in hits : h <= j }) = k
        IN  DecimalValuesIn(row[j].text)[1]]

\* parse_transposed_table: the field a row of the table becomes
FieldOfRow(fields, row) ==
    IF RowHolds(row, "quantity") \/ RowHolds(row, "qty")
    THEN [fields EXCEPT !.quantity = row]
    ELSE IF RowHolds(row, "rate") /\ Len(row) >= 3
    THEN IF fields.rate = <<>> THEN [fields EXCEPT !.rate = row] ELSE fields
    ELSE IF RowHolds(row, "amount") /\ Len(row) >= 3
    THEN [fields EXCEPT !.amount = row]
    ELSE IF RowHolds(row, "hsn")
    THEN IF Len(row) >= 3 THEN [fields EXCEPT !.hsn = row] ELSE fields
    ELSE IF Len(row) >= 3 /\ fields.quantity = <<>>
    THEN IF UnitQuantities(row) >= 2 THEN [fields EXCEPT !.quantity = row] ELSE fields
    ELSE IF Len(row) >= 3 /\ AmountCount(row) >= 2
    THEN IF SumSeq(RowDecimals(row)) > 10000 * AmountCount(row) /\ fields.amount = <<>>
         THEN [fields EXCEPT !.amount = row]
         ELSE IF SumSeq(RowDecimals(row)) < 10000 * AmountCount(row) /\ fields.rate = <<>>
         THEN [fields EXCEPT !.rate = row]
         ELSE fields
    ELSE fields

RECURSIVE FieldRows(_, _)
FieldRows(fields, rest) ==
    IF rest = <<>> THEN fields
    ELSE FieldRows(FieldOfRow(fields, Head(rest)), Tail(rest))

\* the hsn row found looking backwards
HsnRowBefore(rows, start_idx) ==
    LET lo == IF start_idx - FieldsBack > 0 THEN start_idx - FieldsBack ELSE 0
        hits == { i \in (lo + 1)..start_idx :
                    RowHolds(rows[i], "hsn") /\ Len(rows[i]) >= 3 }
    IN  IF hits = {} THEN <<>> ELSE rows[Max(hits)]

\* the text of field row at col_idx, "" when the row is missing or shorter
FieldText(row, c) == IF c <= Len(row) THEN row[c].text ELSE ""

\* parse_transposed_table(rows, start_idx, bounds)
parse_transposed_table(rows, start_idx) ==
    LET field_rows ==
            FieldRows([NoFields EXCEPT !.hsn = HsnRowBefore(rows, start_idx)],
                      RowsUntilTotals(rows, start_idx, start_idx + FieldsAhead))
        num_cols == IF field_rows.quantity # <<>> THEN Len(field_rows.quantity)
                    ELSE IF field_rows.rate # <<>> THEN Len(field_rows.rate)
                    ELSE Len(field_rows.amount)
        item == [c \in 1..num_cols |->
                    Item(HsnIn(FieldText(field_rows.hsn, c)),
                         FieldText(field_rows.quantity, c),
                         NormalizeAmountOf(FieldText(field_rows.rate, c)),
                         NormalizeAmountOf(FieldText(field_rows.amount, c)))]
    IN  FilterSeq(item, [it \in Range(item) |->
                            Nonzero(it.taxableValue) \/ Nonzero(it.unitPrice)])

\* parse_table(rows, header_idx, start_parse_idx)
parse_table(rows, header_idx, start_parse_idx) ==
    LET bounds == compute_bounds([k \in DOMAIN rows[header_idx + 1] |->
                                    rows[header_idx + 1][k].left])
        body == RowsUntilTotals(rows, start_parse_idx, Len(rows))
        priced == FilterSeq(body, [r \in Range(body) |->
                     \E c \in DOMAIN bounds : RowAmounts(r, bounds)[c] # Absent])
    IN  IF is_transposed_table(rows, start_parse_idx,
                               Lesser(start_parse_idx + TableScan, Len(rows)))
        THEN parse_transposed_table(rows, start_parse_idx)
        ELSE [k \in DOMAIN priced |-> TableItem(priced[k], bounds)]

NoItem == [ok |-> FALSE]

\* parse_item_from_line(s), s the texts of a line
parse_item_from_line(texts) ==
    LET qty == FirstText([k \in DOMAIN texts |-> LineQtyIn(texts[k])])
        hits == { k \in DOMAIN texts : DecimalValuesIn(texts[k]) # <<>> }
        amounts == [n \in 1..Cardinality(hits) |->
                      DecimalValuesIn(texts[CHOOSE k \in hits :
                          Cardinality({ h \in hits : h <= k }) = n])[1]]
    IN  IF amounts # <<>> /\ qty # ""
        THEN [ok |-> TRUE,
              item |-> Item(FirstText([k \in DOMAIN texts |-> HsnIn(texts[k])]),
                            qty,
                            IF Len(amounts) >= 2 THEN amounts[Len(amounts) - 1]
                            ELSE Absent,
                            amounts[Len(amounts)])]
        ELSE NoItem

\* parse_items_fallback, the while loop from line i on
RECURSIVE FallbackLoop(_, _, _)
FallbackLoop(filtered, i, items) ==
    IF i > Len(filtered) THEN items
    ELSE IF \E k \in DOMAIN filtered[i] : TotalsMarkerIn(filtered[i][k]) THEN items
    ELSE IF parse_item_from_line(filtered[i]).ok
    THEN FallbackLoop(filtered, i + 1,
                      Append(items, parse_item_from_line(filtered[i]).item))
    ELSE IF i + 1 <= Len(filtered)
            /\ parse_item_from_line(filtered[i] \o filtered[i + 1]).ok
    THEN FallbackLoop(filtered, i + 1,
            Append(items, parse_item_from_line(filtered[i] \o filtered[i + 1]).item))
    ELSE IF i + 2 <= Len(filtered)
            /\ parse_item_from_line(filtered[i] \o filtered[i + 1] \o filtered[i + 2]).ok
    THEN FallbackLoop(filtered, i + 2,
            Append(items, parse_item_from_line(
                filtered[i] \o filtered[i + 1] \o filtered[i + 2]).item))
    ELSE FallbackLoop(filtered, i + 1, items)

\* parse_items_fallback(rows)
parse_items_fallback(rows) ==
    LET lines == [r \in DOMAIN rows |-> RowTexts(rows[r])]
    IN  FallbackLoop(FilterSeq(lines, [ln \in Range(lines) |-> ~OneCharLine(ln)]),
                     1, <<>>)

\* abs(up * qty - tx) / (tx + 1e-6) < 0.05, for amounts in cents: the quotient
\* is negative, and so below 0.05, whenever tx is negative; else the
\* difference is at most a twentieth of tx
RoughlyEqual(product, tx) == tx < 0 \/ Abs(product - tx) <= tx \div 20

\* try_fix_unit_tax(item)
try_fix_unit_tax(item) ==
    LET up == item.unitPrice
        tx == item.taxableValue
        qty == QtyNumber(item.quantity)
    IN  IF ~Nonzero(up) /\ Nonzero(tx) /\ qty > 0
        THEN [item EXCEPT !.unitPrice = RoundDiv(tx, qty)]
        ELSE IF Nonzero(up) /\ Nonzero(tx) /\ qty > 0
                /\ RoughlyEqual(up * qty, tx)
        THEN item
        ELSE IF Nonzero(up) /\ Nonzero(tx) /\ qty > 0 /\ up > tx * 2
        THEN [item EXCEPT !.unitPrice = tx, !.taxableValue = up]
        ELSE item

\* re.search(r'(\d{4,8})', hsn).group(1) of an hsn a parser stored
CleanHsn(hsn) == IF hsn = "2520" THEN "2520" ELSE ""

KeepsAll(it) == TRUE

\* if it.get('taxableValue') or it.get('unitPrice') or it.get('hsn')
Keeps(it) == Nonzero(it.taxableValue) \/ Nonzero(it.unitPrice) \/ it.hsn # ""

\* postprocess_extracted, the items
postprocess_extracted(items) ==
    LET fixed == [k \in DOMAIN items |->
                    [try_fix_unit_tax(items[k]) EXCEPT !.hsn = CleanHsn(@)]]
    IN  FilterSeq(fixed, [it \in Range(fixed) |-> Keeps(it)])

(* invoice_extractor.py: extract_invoice_structured, and
   invoice_transformer.py: transform_invoice *)

ResultKeys == {"invoice", "seller", "buyer", "items", "totals", "meta"}

NoResult == [keys |-> {}, items |-> <<>>]

\* out = {"invoice": inv, "seller": seller, ..., "items": items, ...}
Out(items) == [keys |-> ResultKeys, items |-> items]

\* the minimal structure of the outer handler of transform_invoice
MinimalResult == [keys |-> ResultKeys \cup {"error"}, items |-> <<>>]

\* extract_line_items(full_text_str): without "Sub Total", "Total ₹" or
\* "Invoice Amount In Words" in the text no table block is found
extract_line_items(fullText) == <<>>

\* the exception a malformed response raises in tokens_from_fulltext, "" if
\* none: text None has no strip(), fullText None cannot be enumerated
TokenizeRaises(ocr) ==
    CASE ocr.kind = "textNone" -> "AttributeError"
      [] ocr.kind = "fullTextNone" -> "TypeError"
      [] OTHER -> ""

\* the exception the regex path raises, "" if none: get_full_text_string
\* joins the texts, extract_meta iterates over fullText
RegexPathRaises(ocr) ==
    IF ocr.kind \in {"textNone", "fullTextNone"} THEN "TypeError" ELSE ""

CaughtNever(exc) == FALSE

\* except Exception as e
Caught(exc) == exc \in {"AttributeError", "TypeError"}

NeedsFallbackAlways(items) == TRUE

\* if not items
NeedsFallback(items) == items = <<>>

\* the locals of a call of extract_invoice_structured and of the functions
\* it calls, at entry: toks = [], rows = [], items = []
EnterCallKeeping(e) == [e EXCEPT !.pc = "tokenize"]
EnterCall(e) ==
    [e EXCEPT !.pc = "tokenize", !.tokens = <<>>, !.rows = <<>>,
              !.header = NoHeaderFound, !.items = <<>>, !.tableItems = <<>>,
              !.ranTable = FALSE, !.ranFallback = FALSE, !.parsed = <<>>,
              !.out = NoResult]

(* Inputs: documents of lines of up to five cells, an optional header line
   and body lines; a cell without text is a token the tokenizer drops *)

HeaderLine == <<"Description", "HSN/SAC", "Quantity", "Rate", "Amount">>

BodyLines ==
    { <<"Cement", "2520", "149 Bag", "263.00", "39,187.00">>,
      <<"Cement", "2520", "149 Bag", "", "39,187.00">>,
      <<"Cement">>,
      <<"Cement", "", "", "", "0.00">>,
      <<"Rate", "263.00", "263.00">>,
      <<"Total", "", "", "", "39,187.00">> }

MaxBody == 3

\* the OCR tokens of line r, one per cell
RawLine(texts, r) ==
    [k \in DOMAIN texts |->
        [text |-> texts[k], cx |-> ColPitch * (k - 1) + CellHalf,
         cy |-> RowPitch * r, left |-> ColPitch * (k - 1)]]

RECURSIVE RawLines(_, _)
RawLines(lines, r) ==
    IF r > Len(lines) THEN <<>>
    ELSE RawLine(lines[r], r) \o RawLines(lines, r + 1)

Documents ==
    { RawLines(h \o b, 1) : h \in { <<>>, <<HeaderLine>> },
                            b \in SeqsUpTo(BodyLines, MaxBody) }

OcrResponses ==
    { [kind |-> "ok", fullText |-> d] : d \in Documents }
    \cup { [kind |-> k, fullText |-> <<>>] :
             k \in {"textNone", "fullTextNone", "notDict"} }

ExIdle ==
    [pc |-> "idle", ocr |-> [kind |-> "ok", fullText |-> <<>>], via |-> "",
     call |-> 0, tokens |-> <<>>, rows |-> <<>>, header |-> NoHeaderFound,
     items |-> <<>>, tableItems |-> <<>>, ranTable |-> FALSE,
     ranFallback |-> FALSE, parsed |-> <<>>, out |-> NoResult,
     first |-> NoResult, exc |-> "", result |-> NoResult]

ExStart == { [ExIdle EXCEPT !.pc = "start", !.ocr = o] : o \in OcrResponses }

\* a caller calls extract_invoice_structured(ocr_json)
CallExtract ==
    /\ ex.pc = "start"
    /\ ex.ocr.kind # "notDict"
    /\ ex' = [EnterCall(ex) EXCEPT !.via = "direct", !.call = 1]

\* the caller calls it again on the same ocr_json
CallAgain ==
    /\ ex.pc = "returned"
    /\ ex.via = "direct"
    /\ ex.call = 1
    /\ ex' = [EnterCall(ex) EXCEPT !.call = 2, !.first = ex.out]

\* transform_invoice(ocr_response): ocr_response.get raises on a response
\* that is no dict; else extract_invoice_structured is called
CallTransform ==
    /\ ex.pc = "start"
    /\ IF ex.ocr.kind = "notDict"
       THEN ex' = [ex EXCEPT !.via = "transform", !.exc = "AttributeError",
                             !.pc = "outer"]
       ELSE ex' = [EnterCall(ex) EXCEPT !.via = "transform", !.call = 1]

\* tokens = tokens_from_fulltext(fullText)
ExTokenize ==
    /\ ex.pc = "tokenize"
    /\ IF TokenizeRaises(ex.ocr) # ""
       THEN ex' = [ex EXCEPT !.exc = TokenizeRaises(ex.ocr),
                             !.pc = IF ex.via = "transform" THEN "inner"
                                    ELSE "propagated"]
       ELSE ex' = [ex EXCEPT !.tokens = tokens_from_fulltext(ex.ocr.fullText),
                             !.pc = "group"]

\* rows = group_rows(tokens, y_tol=16.0)
ExGroupRows ==
    /\ ex.pc = "group"
    /\ LET rows == GroupLoop(ex.rows, ex.tokens, YTol)
       IN  ex' = [ex EXCEPT !.rows = [r \in DOMAIN rows |-> SortRow(rows[r])],
                            !.pc = "header"]

\* header_result = find_header_soft(rows)
ExFindHeader ==
    /\ ex.pc = "header"
    /\ ex' = [ex EXCEPT !.header = find_header_soft(ex.rows), !.pc = "table"]

\* items = parse_table(rows, header_idx, start_parse_idx)
ExParseTable ==
    /\ ex.pc = "table"
    /\ ex.header.found
    /\ LET items == parse_table(ex.rows, ex.header.header_idx,
                                ex.header.start_parse_idx)
       IN  ex' = [ex EXCEPT !.items = items, !.tableItems = items,
                            !.ranTable = TRUE, !.pc = "fallback"]

\* header detection failed
ExNoHeader ==
    /\ ex.pc = "table"
    /\ ~ex.header.found
    /\ ex' = [ex EXCEPT !.pc = "fallback"]

\* if not items: items = parse_items_fallback(rows)
ExFallback ==
    /\ ex.pc = "fallback"
    /\ NeedsFallback(ex.items)
    /\ ex' = [ex EXCEPT !.items = parse_items_fallback(ex.rows),
                        !.ranFallback = TRUE, !.pc = "post"]

ExKeepTableItems ==
    /\ ex.pc = "fallback"
    /\ ~NeedsFallback(ex.items)
    /\ ex' = [ex EXCEPT !.pc = "post"]

\* out = postprocess_extracted(out, fullText); return out
ExPostprocess ==
    /\ ex.pc = "post"
    /\ ex' = [ex EXCEPT !.parsed = ex.items,
                        !.items = postprocess_extracted(ex.items),
                        !.out = Out(postprocess_extracted(ex.items)),
                        !.pc = "returned"]

\* transform_invoice: if result.get('items'): return result
UseExtractorResult ==
    /\ ex.pc = "returned"
    /\ ex.via = "transform"
    /\ IF ex.out.items # <<>>
       THEN ex' = [ex EXCEPT !.result = ex.out, !.pc = "done"]
       ELSE ex' = [ex EXCEPT !.pc = "regex"]

\* transform_invoice: the inner except Exception
ExtractorFailed ==
    /\ ex.pc = "inner"
    /\ ex' = [ex EXCEPT !.pc = IF Caught(ex.exc) THEN "regex" ELSE "outer"]

\* transform_invoice: the regex-based extraction
RegexPath ==
    /\ ex.pc = "regex"
    /\ IF RegexPathRaises(ex.ocr) # ""
       THEN ex' = [ex EXCEPT !.exc = RegexPathRaises(ex.ocr), !.pc = "outer"]
       ELSE ex' = [ex EXCEPT !.result = Out(extract_line_items(ex.ocr.fullText)),
                             !.pc = "done"]

\* transform_invoice: the outer except Exception
OuterHandler ==
    /\ ex.pc = "outer"
    /\ IF Caught(ex.exc)
       THEN ex' = [ex EXCEPT !.result = MinimalResult, !.pc = "done"]
       ELSE ex' = [ex EXCEPT !.pc = "propagated"]

ExNext ==
    /\ \/ CallExtract
       \/ CallAgain
       \/ CallTransform
       \/ ExTokenize
       \/ ExGroupRows
       \/ ExFindHeader
       \/ ExParseTable
       \/ ExNoHeader
       \/ ExFallback
       \/ ExKeepTableItems
       \/ ExPostprocess
       \/ UseExtractorResult
       \/ ExtractorFailed
       \/ RegexPath
       \/ OuterHandler
    /\ UNCHANGED <<rc, gr, bn, hd, tb, fb, ap, tr, fx, gs, dt, rw, oc>>

-----------------------------------------------------------------------------
(* invoice_extractor.py: parse_table, row by row.  The description of an item
   is a sequence of parts, each part the texts of the tokens of a buffered
   row or of a column of the row of the item; the code joins them with
   blanks. *)

\* re.match(r"^\d+$", text), text the joined texts of a row or of a column
PureNumber(texts) == Len(texts) = 1 /\ texts[1] \in {"1", "2520"}

\* re.search(r"\d{4,8}", col_text(c))
DigitRunIn(text) == text = "2520"

\* re.sub(r"^\d+\s+", "", pending_text): a number the row begins with is
\* dropped, and so are the digits of a quantity it begins with
WithoutRowNumber(texts) ==
    IF texts = <<>> THEN texts
    ELSE IF Head(texts) = "149 Bag" THEN <<"Bag">> \o Tail(texts)
    ELSE IF Head(texts) \in {"1", "2520"} /\ Len(texts) > 1 THEN Tail(texts)
    ELSE texts

\* desc_parts of the buffered rows
PendingParts(rows, pending) ==
    [k \in DOMAIN pending |-> WithoutRowNumber(RowTexts(rows[pending[k] + 1]))]

\* desc_parts of the row of the item: the columns left of the first column
\* with an amount or a run of 4 to 8 digits, but for bare numbers
RowParts(cols) ==
    LET numeric == { c \in DOMAIN cols :
                       \/ extract_amount_from_col(cols[c]) # Absent
                       \/ \E k \in DOMAIN cols[c] : DigitRunIn(cols[c][k].text) }
        last_desc_idx == IF numeric = {} THEN Len(cols) ELSE Min(numeric) - 1
        parts == [c \in 1..last_desc_idx |-> RowTexts(cols[c])]
    IN  FilterSeq(parts, [p \in Range(parts) |-> p # <<>> /\ ~PureNumber(p)])

ClearedBufferKept(pending) == pending
\* pending_desc_rows = [], once an item is made
ClearedBuffer(pending) == <<>>

\* the row the loop of parse_table is at
TbRow == tb.rows[tb.i + 1]

\* amount is not None
TbHasAmount == \E c \in DOMAIN tb.bounds : RowAmounts(TbRow, tb.bounds)[c] # Absent

(* Inputs: documents with an anchor row of five or of two tokens *)

ShortHeaderLine == <<"Description of Goods", "Amount">>

TbBodyLines ==
    { <<"Cement", "2520", "149 Bag", "263.00", "39,187.00">>,
      <<"Cement", "", "", "263.00", "39,187.00">>,
      <<"1", "Cement">>,
      <<"1">>,
      <<"Cement", "", "", "263.00", "5%">>,
      <<"Invoice Amount In Words">>,
      <<"Total", "", "", "", "39,187.00">> }

MaxTbBody == 3

TbDocuments ==
    { group_rows(tokens_from_fulltext(RawLines(<<h>> \o b, 1)), YTol) :
        h \in {HeaderLine, ShortHeaderLine}, b \in SeqsUpTo(TbBodyLines, MaxTbBody) }

TbIdle ==
    [pc |-> "idle", rows |-> <<>>, header |-> NoHeaderFound, bounds |-> <<>>,
     transposed |-> FALSE, i |-> 0, pending |-> <<>>, items |-> <<>>,
     buffered |-> {}, skipped |-> {}]

\* parse_table is called with the anchor find_header_soft found
TbStart ==
    { [TbIdle EXCEPT !.pc = "start", !.rows = rows,
                     !.header = find_header_soft(rows)] :
        rows \in { d \in TbDocuments : find_header_soft(d).found } }

\* bounds = compute_bounds(header_row); is_transposed = is_transposed_table(...)
TbCall ==
    /\ tb.pc = "start"
    /\ LET header_row == tb.rows[tb.header.header_idx + 1]
           is_transposed ==
               is_transposed_table(tb.rows, tb.header.start_parse_idx,
                   Lesser(tb.header.start_parse_idx + TableScan, Len(tb.rows)))
       IN  tb' = [tb EXCEPT !.bounds = compute_bounds([k \in DOMAIN header_row |->
                                                         header_row[k].left]),
                            !.transposed = is_transposed,
                            !.i = tb.header.start_parse_idx,
                            !.pc = IF is_transposed THEN "transposed" ELSE "row"]

\* return parse_transposed_table(rows, start_parse_idx, bounds)
TbTransposed ==
    /\ tb.pc = "transposed"
    /\ LET items == parse_transposed_table(tb.rows, tb.header.start_parse_idx)
       IN  tb' = [tb EXCEPT !.items = [k \in DOMAIN items |->
                                [item |-> items[k], row |-> NoIdx,
                                 pending |-> <<>>, description |-> <<>>]],
                            !.pc = "done"]

\* the loop is through the rows
TbEnd ==
    /\ tb.pc = "row"
    /\ tb.i >= Len(tb.rows)
    /\ tb' = [tb EXCEPT !.pc = "done"]

\* a totals marker: break
TbStop ==
    /\ tb.pc = "row"
    /\ tb.i < Len(tb.rows)
    /\ RowHasTotalsMarker(TbRow)
    /\ tb' = [tb EXCEPT !.pc = "done"]

\* no amount: pending_desc_rows.append(row)
TbBuffer ==
    /\ tb.pc = "row"
    /\ tb.i < Len(tb.rows)
    /\ ~RowHasTotalsMarker(TbRow)
    /\ ~TbHasAmount
    /\ ~PureNumber(RowTexts(TbRow))
    /\ tb' = [tb EXCEPT !.pending = Append(@, tb.i),
                        !.buffered = @ \cup {tb.i}, !.i = @ + 1]

\* no amount and just a number: continue
TbSkip ==
    /\ tb.pc = "row"
    /\ tb.i < Len(tb.rows)
    /\ ~RowHasTotalsMarker(TbRow)
    /\ ~TbHasAmount
    /\ PureNumber(RowTexts(TbRow))
    /\ tb' = [tb EXCEPT !.skipped = @ \cup {tb.i}, !.i = @ + 1]

\* an amount: items.append(item); pending_desc_rows = []
TbItem ==
    /\ tb.pc = "row"
    /\ tb.i < Len(tb.rows)
    /\ ~RowHasTotalsMarker(TbRow)
    /\ TbHasAmount
    /\ tb' = [tb EXCEPT
                !.items = Append(@,
                    [item |-> TableItem(TbRow, tb.bounds), row |-> tb.i,
                     pending |-> tb.pending,
                     description |-> PendingParts(tb.rows, tb.pending)
                                     \o RowParts(assign_cols(TbRow, tb.bounds))]),
                !.pending = ClearedBuffer(@), !.i = @ + 1]

TbNext ==
    /\ \/ TbCall
       \/ TbTransposed
       \/ TbEnd
       \/ TbStop
       \/ TbBuffer
       \/ TbSkip
       \/ TbItem
    /\ UNCHANGED <<rc, gr, bn, hd, ex, fb, ap, tr, fx, gs, dt, rw, oc>>

-----------------------------------------------------------------------------
(* invoice_extractor.py: parse_items_fallback, line by line.  A line is the
   texts of the tokens of a row; the code joins them with blanks. *)

\* filtered[fb.i], the line the loop of parse_items_fallback is at
FbLine == fb.filtered[fb.i + 1]

\* re.search(r"\b(Sub\s*Total|Total|Round Off|Amount Chargeable|Tax Amount)\b", ln)
LineHasTotalsMarker(ln) == \E k \in DOMAIN ln : TotalsMarkerIn(ln[k])

\* merged, after j of the following lines were added to filtered[fb.i]
RECURSIVE FbMergedLine(_)
FbMergedLine(j) ==
    IF j = 0 THEN FbLine ELSE FbMergedLine(j - 1) \o fb.filtered[fb.i + j + 1]

\* the values of j at which the merged line parses: j <= 2 and
\* i + j < len(filtered)
FbMergeable ==
    { j \in 1..2 : /\ fb.i + j < Len(fb.filtered)
                   /\ parse_item_from_line(FbMergedLine(j)).ok }

(* Inputs: documents of lines without an anchor row *)

FbBodyLines ==
    { <<"Cement", "2520", "149 Bag", "263.00", "39,187.00">>,
      <<"Cement">>,
      <<"Cement", "", "149 Bag">>,
      <<"1">>,
      <<"Total", "", "", "", "39,187.00">> }

MaxFbLines == 4

\* an item line that starts with its serial number, whole and wrapped over
\* two rows
FbSerialLines ==
    { <<"1", "Cement", "2520", "149 Bag", "263.00", "39187.00">>,
      <<"1", "Cement">>,
      <<"2520", "149 Bag", "263.00", "39187.00">> }

MaxFbSerial == 2

FbDocuments ==
    { group_rows(tokens_from_fulltext(RawLines(b, 1)), YTol) :
        b \in SeqsUpTo(FbBodyLines, MaxFbLines)
                \cup SeqsUpTo(FbSerialLines, MaxFbSerial) }

FbIdle ==
    [pc |-> "idle", rows |-> <<>>, filtered |-> <<>>, i |-> 0, items |-> <<>>]

FbStart == { [FbIdle EXCEPT !.pc = "start", !.rows = rows] : rows \in FbDocuments }

\* lines = [...]; filtered = [ln for ln in lines if len(ln) > 1]
FbCall ==
    /\ fb.pc = "start"
    /\ LET lines == [r \in DOMAIN fb.rows |-> RowTexts(fb.rows[r])]
       IN  fb' = [fb EXCEPT !.filtered = FilterSeq(lines,
                                [ln \in Range(lines) |-> ~OneCharLine(ln)]),
                            !.i = 0, !.pc = "line"]

\* while i < len(filtered) fails
FbEnd ==
    /\ fb.pc = "line"
    /\ fb.i >= Len(fb.filtered)
    /\ fb' = [fb EXCEPT !.pc = "done"]

\* a totals marker in filtered[i]: break
FbStop ==
    /\ fb.pc = "line"
    /\ fb.i < Len(fb.filtered)
    /\ LineHasTotalsMarker(FbLine)
    /\ fb' = [fb EXCEPT !.pc = "done"]

\* the single-line parse succeeds
FbSingle ==
    /\ fb.pc = "line"
    /\ fb.i < Len(fb.filtered)
    /\ ~LineHasTotalsMarker(FbLine)
    /\ parse_item_from_line(FbLine).ok
    /\ fb' = [fb EXCEPT !.items = Append(@, [item |-> parse_item_from_line(FbLine).item,
                                             first |-> fb.i, last |-> fb.i]),
                        !.i = @ + 1]

MergeAdvanceShort(i, j) == i + j - 1
\* i += j, after a merge with j following lines
MergeAdvance(i, j) == i + j

\* the line parses merged with the next one or two lines: i += j
FbMerge ==
    /\ fb.pc = "line"
    /\ fb.i < Len(fb.filtered)
    /\ ~LineHasTotalsMarker(FbLine)
    /\ ~parse_item_from_line(FbLine).ok
    /\ FbMergeable # {}
    /\ LET j == Min(FbMergeable)
       IN  fb' = [fb EXCEPT !.items = Append(@,
                                [item |-> parse_item_from_line(FbMergedLine(j)).item,
                                 first |-> fb.i, last |-> fb.i + j]),
                            !.i = MergeAdvance(@, j)]

\* no item of the line, merged or not: i += 1
FbPass ==
    /\ fb.pc = "line"
    /\ fb.i < Len(fb.filtered)
    /\ ~LineHasTotalsMarker(FbLine)
    /\ ~parse_item_from_line(FbLine).ok
    /\ FbMergeable = {}
    /\ fb' = [fb EXCEPT !.i = @ + 1]

FbNext ==
    /\ \/ FbCall
       \/ FbEnd
       \/ FbStop
       \/ FbSingle
       \/ FbMerge
       \/ FbPass
    /\ UNCHANGED <<rc, gr, bn, hd, ex, tb, ap, tr, fx, gs, dt, rw, oc>>

-----------------------------------------------------------------------------
(* app.py: parse, the loop over the pages of the upload.  A page is modelled
   by whether the OCR engine returns tokens for it and whether
   assess_quality rejects it. *)

MaxPages == 3

PageChoices == [tokens : BOOLEAN, reject : BOOLEAN]

\* rasterize_pdf_if_needed: an image is one page, a PDF its pages
Uploads ==
    { [pdf |-> FALSE, pages |-> <<p>>] : p \in PageChoices }
    \cup { [pdf |-> TRUE, pages |-> ps] :
             ps \in UNION { [1..n -> PageChoices] : n \in 1..MaxPages } }

ApIdle ==
    [pc |-> "idle", upload |-> [pdf |-> FALSE, pages |-> <<>>], page_idx |-> 0,
     all_tokens |-> {}, all_warnings |-> {}, outcome |-> ""]

ApStart == { [ApIdle EXCEPT !.pc = "page", !.upload = u] : u \in Uploads }

\* pages_bgr[page_idx]
ApPage == ap.upload.pages[ap.page_idx + 1]

\* an image of bad quality: the BAD_QUALITY response is returned
ApRejectImage ==
    /\ ap.pc = "page"
    /\ ap.page_idx < Len(ap.upload.pages)
    /\ ApPage.reject /\ ~ap.upload.pdf /\ ap.page_idx = 0
    /\ ap' = [ap EXCEPT !.outcome = "badQuality", !.pc = "done"]

\* a page of a PDF of bad quality is warned about and processed
ApWarnings ==
    IF ApPage.reject /\ ap.upload.pdf THEN ap.all_warnings \cup {ap.page_idx}
    ELSE ap.all_warnings

\* if not tokens, on the first page: raise HTTPException(422, "No text
\* detected in image")
ApNoTextFirstPage ==
    /\ ap.pc = "page"
    /\ ap.page_idx < Len(ap.upload.pages)
    /\ ~(ApPage.reject /\ ~ap.upload.pdf /\ ap.page_idx = 0)
    /\ ~ApPage.tokens
    /\ ap.page_idx = 0
    /\ ap' = [ap EXCEPT !.all_warnings = ApWarnings, !.outcome = "noText",
                        !.pc = "done"]

\* if not tokens, on a later page: continue
ApSkipPage ==
    /\ ap.pc = "page"
    /\ ap.page_idx < Len(ap.upload.pages)
    /\ ~ApPage.tokens
    /\ ap.page_idx > 0
    /\ ap' = [ap EXCEPT !.all_warnings = ApWarnings, !.page_idx = @ + 1]

\* all_tokens.extend(tokens), and the page is parsed
ApParsePage ==
    /\ ap.pc = "page"
    /\ ap.page_idx < Len(ap.upload.pages)
    /\ ~(ApPage.reject /\ ~ap.upload.pdf /\ ap.page_idx = 0)
    /\ ApPage.tokens
    /\ ap' = [ap EXCEPT !.all_warnings = ApWarnings,
                        !.all_tokens = @ \cup {ap.page_idx}, !.page_idx = @ + 1]

\* after the loop: build_response, return OCRResponse
ApRespond ==
    /\ ap.pc = "page"
    /\ ap.page_idx >= Len(ap.upload.pages)
    /\ ap' = [ap EXCEPT !.outcome = "response", !.pc = "done"]

ApNext ==
    /\ \/ ApRejectImage
       \/ ApNoTextFirstPage
       \/ ApSkipPage
       \/ ApParsePage
       \/ ApRespond
    /\ UNCHANGED <<rc, gr, bn, hd, ex, tb, fb, tr, fx, gs, dt, rw, oc>>

-----------------------------------------------------------------------------
(* invoice_extractor.py: is_transposed_table on rows of which only the
   leftX values of the tokens matter *)

\* rows by the leftX of their tokens, in half pixels: five columns; the
\* last column 30 px further right; the last two columns further right;
\* three columns
RowShapes ==
    { <<0, 200, 400, 600, 800>>,
      <<0, 200, 400, 600, 860>>,
      <<0, 200, 400, 660, 860>>,
      <<0, 200, 400>> }

MaxTrRows == 6

\* the number of two-token rows before the rows drawn
TrPads == {0, 13}

ShapedRow(lefts) == [k \in DOMAIN lefts |-> [left |-> lefts[k]]]

TrRows ==
    { [k \in 1..pad |-> ShapedRow(<<0, 200>>)]
        \o [k \in DOMAIN shapes |-> ShapedRow(shapes[k])] :
        pad \in TrPads, shapes \in SeqsUpTo(RowShapes, MaxTrRows) }

TrIdle ==
    [pc |-> "idle", rows |-> <<>>, start_idx |-> 0, end_idx |-> 0,
     col_positions |-> <<>>, result |-> FALSE]

\* parse_table calls is_transposed_table(rows, start_parse_idx,
\* min(start_parse_idx + 20, len(rows)))
TrStart ==
    { [TrIdle EXCEPT !.pc = "start", !.rows = rows,
                     !.end_idx = Lesser(TableScan, Len(rows))] : rows \in TrRows }

\* if end_idx - start_idx < 3: return False
TrTooShort ==
    /\ tr.pc = "start"
    /\ tr.end_idx - tr.start_idx < TransposedMinRows
    /\ tr' = [tr EXCEPT !.result = FALSE, !.pc = "done"]

\* the loop that fills col_positions
TrSample ==
    /\ tr.pc = "start"
    /\ tr.end_idx - tr.start_idx >= TransposedMinRows
    /\ tr' = [tr EXCEPT !.col_positions = SampledRows(tr.rows, tr.start_idx, tr.end_idx),
                        !.pc = "compare"]

\* if len(col_positions) < 2: return False
TrTooFew ==
    /\ tr.pc = "compare"
    /\ Len(tr.col_positions) < 2
    /\ tr' = [tr EXCEPT !.result = FALSE, !.pc = "done"]

\* return matches_found >= 2
TrCompare ==
    /\ tr.pc = "compare"
    /\ Len(tr.col_positions) >= 2
    /\ tr' = [tr EXCEPT !.result = (MatchesFound(tr.col_positions) >= 2),
                        !.pc = "done"]

TrNext ==
    /\ \/ TrTooShort
       \/ TrSample
       \/ TrTooFew
       \/ TrCompare
    /\ UNCHANGED <<rc, gr, bn, hd, ex, tb, fb, ap, fx, gs, dt, rw, oc>>

-----------------------------------------------------------------------------
(* invoice_extractor.py: try_fix_unit_tax, return by return, on items of
   bounded fields.  A negative amount comes from parse_transposed_table, which
   normalizes the text of a token with its sign. *)

FxQuantities == {"", "Bag", "1", "149 Bag"}

FxAmounts == {Absent, 0, -10000, 10000, 20000, 20001, 26300, 3918700}

FxIdle ==
    [pc |-> "idle", item |-> Item("", "", Absent, Absent),
     result |-> Item("", "", Absent, Absent), outcome |-> ""]

FxStart ==
    { [FxIdle EXCEPT !.pc = "start", !.item = Item("", q, up, tx), !.result = Item("", q, up, tx)] :
        q \in FxQuantities, up \in FxAmounts, tx \in FxAmounts }

\* qty of try_fix_unit_tax
FxQty == QtyNumber(fx.item.quantity)

\* (not up or up == 0) and tx and qty > 0
FxPriceMissing ==
    ~Nonzero(fx.item.unitPrice) /\ Nonzero(fx.item.taxableValue) /\ FxQty > 0

\* up and tx and qty > 0
FxAllKnown ==
    Nonzero(fx.item.unitPrice) /\ Nonzero(fx.item.taxableValue) /\ FxQty > 0

\* item['unitPrice'] = round(tx / qty, 2); return item
FxCompute ==
    /\ fx.pc = "start"
    /\ FxPriceMissing
    /\ fx' = [fx EXCEPT !.result.unitPrice = RoundDiv(fx.item.taxableValue, FxQty),
                        !.outcome = "computed", !.pc = "done"]

\* unitPrice * qty is about taxable: return item
FxConsistent ==
    /\ fx.pc = "start"
    /\ ~FxPriceMissing
    /\ FxAllKnown
    /\ RoughlyEqual(fx.item.unitPrice * FxQty, fx.item.taxableValue)
    /\ fx' = [fx EXCEPT !.outcome = "consistent", !.pc = "done"]

\* item['unitPrice'], item['taxableValue'] = tx, up; return item
FxSwap ==
    /\ fx.pc = "start"
    /\ ~FxPriceMissing
    /\ FxAllKnown
    /\ ~RoughlyEqual(fx.item.unitPrice * FxQty, fx.item.taxableValue)
    /\ fx.item.unitPrice > fx.item.taxableValue * 2
    /\ fx' = [fx EXCEPT !.result.unitPrice = fx.item.taxableValue,
                        !.result.taxableValue = fx.item.unitPrice,
                        !.outcome = "swapped", !.pc = "done"]

\* the last return item
FxUnchanged ==
    /\ fx.pc = "start"
    /\ ~FxPriceMissing
    /\ ~(FxAllKnown /\ RoughlyEqual(fx.item.unitPrice * FxQty, fx.item.taxableValue))
    /\ ~(FxAllKnown /\ fx.item.unitPrice > fx.item.taxableValue * 2)
    /\ fx' = [fx EXCEPT !.outcome = "unchanged", !.pc = "done"]

FxNext ==
    /\ \/ FxCompute
       \/ FxConsistent
       \/ FxSwap
       \/ FxUnchanged
    /\ UNCHANGED <<rc, gr, bn, hd, ex, tb, fb, ap, tr, gs, dt, rw, oc>>

-----------------------------------------------------------------------------
(* invoice_extractor.py: the seller and buyer GSTIN of
   extract_invoice_structured, and layout_parser.py: those of
   parse_header_blocks.  A document is its rows from top to bottom, all on
   page 0, each of one token; parse_header_blocks gets the tokens in the same
   order. *)

TopRows == 5            \* page_0_rows[:5]
MidEnd == 25            \* page_0_rows[5:min(25, len(page_0_rows))]
BlockMin == 10          \* (.{10,500}?)

FillerLine == "Koyal Kothi Road"
FirstGstinLine == "GSTIN: 27AAAAA0000A1Z5"
SecondGstinLine == "GSTIN: 29BBBBB1111B1Z6"
BillToLine == "Bill To"
GoodsLine == "Description of Goods"

\* the group of re.search(r"GSTIN[^A-Z0-9]*([A-Z0-9]{15})", text), "" without
\* a match
LabelledGstinIn(text) ==
    CASE text = FirstGstinLine -> "27AAAAA0000A1Z5"
      [] text = SecondGstinLine -> "29BBBBB1111B1Z6"
      [] OTHER -> ""

\* GSTIN_RE.findall(text.upper()), "" without a match
GstinIn(text) ==
    CASE text = FirstGstinLine -> "27AAAAA0000A1Z5"
      [] text = SecondGstinLine -> "29BBBBB1111B1Z6"
      [] OTHER -> ""

\* len(text)
TextLen(text) ==
    CASE text = FillerLine -> 16
      [] text = FirstGstinLine -> 22
      [] text = SecondGstinLine -> 22
      [] text = BillToLine -> 7
      [] text = GoodsLine -> 20
      [] OTHER -> 0

\* re.findall(r"GSTIN[^A-Z0-9]*([A-Z0-9]{15})", text) over the lines of text
AllGsts(lines) ==
    LET found == [k \in DOMAIN lines |-> LabelledGstinIn(lines[k])]
    IN  FilterSeq(found, [g \in Range(found) |-> g # ""])

\* GSTIN_RE.findall(joined.upper()) over the texts of the tokens
Gstins(texts) ==
    LET found == [k \in DOMAIN texts |-> GstinIn(texts[k])]
    IN  FilterSeq(found, [g \in Range(found) |-> g # ""])

FirstOf(gsts) == IF Len(gsts) > 0 THEN gsts[1] ELSE ""

SecondOf(gsts) == IF Len(gsts) > 1 THEN gsts[2] ELSE ""

\* the lines of mid between lines b and t, with the line breaks around them:
\* what (.{10,500}?) has to hold when [\s:\-]* takes nothing
CharsBetween(mid, b, t) ==
    1 + SumSeq([k \in 1..(t - b - 1) |-> TextLen(mid[b + k]) + 1])

\* the match of (?:Bill\s*To|...)[\s:\-]*(.{10,500}?)(?:Invoice\s*No|HSN|
\* Description\s*of\s*Goods|#\s*Item) in mid: the first 'Bill To' line with
\* a 'Description of Goods' line 10 characters or more after it, and the
\* lines between the two
BillToBlock(mid) ==
    LET starts == { b \in DOMAIN mid :
                      /\ mid[b] = BillToLine
                      /\ \E t \in DOMAIN mid :
                            /\ t > b
                            /\ mid[t] = GoodsLine
                            /\ CharsBetween(mid, b, t) >= BlockMin }
    IN  IF starts = {} THEN [found |-> FALSE, block |-> <<>>]
        ELSE LET b == Min(starts)
                 t == Min({ t \in DOMAIN mid :
                              /\ t > b
                              /\ mid[t] = GoodsLine
                              /\ CharsBetween(mid, b, t) >= BlockMin })
             IN  [found |-> TRUE, block |-> SubSeq(mid, b + 1, t - 1)]

(* Inputs: two GSTIN lines at any two places of a document, with or without
   a 'Bill To' line and a 'Description of Goods' line *)

MaxGsRows == 27

GsExtras ==
    { <<0, 0>>, <<6, 0>>, <<6, 9>>, <<3, 9>>, <<8, 9>>, <<6, 26>> }

GsDocument(n, p, q, extra) ==
    [k \in 1..n |->
        IF k = p THEN FirstGstinLine
        ELSE IF k = q THEN SecondGstinLine
        ELSE IF k = extra[1] THEN BillToLine
        ELSE IF k = extra[2] THEN GoodsLine
        ELSE FillerLine]

GsDocuments ==
    { GsDocument(n, p, q, extra) :
        n \in {MaxGsRows - 17, MaxGsRows}, p \in 1..MaxGsRows, q \in 1..MaxGsRows,
        extra \in GsExtras }

GsIdle ==
    [pc |-> "idle", rows |-> <<>>, top |-> <<>>, mid |-> <<>>,
     seller |-> "", buyer |-> "", layout |-> "idle",
     layout_seller |-> "", layout_buyer |-> ""]

GsStart ==
    { [GsIdle EXCEPT !.pc = "start", !.layout = "start", !.rows = d] :
        d \in { d \in GsDocuments : Len(AllGsts(d)) = 2 } }

\* top and mid of page_0_rows
GsBlocks ==
    /\ gs.pc = "start"
    /\ gs' = [gs EXCEPT !.top = SubSeq(gs.rows, 1, Lesser(TopRows, Len(gs.rows))),
                        !.mid = SubSeq(gs.rows, TopRows + 1, Lesser(MidEnd, Len(gs.rows))),
                        !.pc = "seller"]

\* seller["gstin"]: the first GSTIN of top
GsSeller ==
    /\ gs.pc = "seller"
    /\ gs' = [gs EXCEPT !.seller = FirstOf(AllGsts(gs.top)), !.pc = "buyer"]

\* if mm: buyer["gstin"] is the first GSTIN of the block after 'Bill To'
GsBuyerOfBlock ==
    /\ gs.pc = "buyer"
    /\ BillToBlock(gs.mid).found
    /\ gs' = [gs EXCEPT !.buyer = FirstOf(AllGsts(BillToBlock(gs.mid).block)),
                        !.pc = "done"]

\* else: buyer["gstin"] is the second GSTIN of top + mid
GsBuyerSecond ==
    /\ gs.pc = "buyer"
    /\ ~BillToBlock(gs.mid).found
    /\ gs' = [gs EXCEPT !.buyer = SecondOf(AllGsts(gs.top \o gs.mid)),
                        !.pc = "done"]

\* parse_header_blocks: gstins[0] and gstins[1] of all tokens of the page
GsHeaderBlocks ==
    /\ gs.layout = "start"
    /\ gs' = [gs EXCEPT !.layout_seller = FirstOf(Gstins(gs.rows)),
                        !.layout_buyer = SecondOf(Gstins(gs.rows)),
                        !.layout = "done"]

GsNext ==
    /\ \/ GsBlocks
       \/ GsSeller
       \/ GsBuyerOfBlock
       \/ GsBuyerSecond
       \/ GsHeaderBlocks
    /\ UNCHANGED <<rc, gr, bn, hd, ex, tb, fb, ap, tr, fx, dt, rw, oc>>

-----------------------------------------------------------------------------
(* layout_parser.py: the invoice date of parse_header_blocks and
   _normalize_date.  A text is the sequence of its characters. *)

DigitChars == <<"0", "1", "2", "3", "4", "5", "6", "7", "8", "9">>

IsDigit(c) == \E k \in DOMAIN DigitChars : DigitChars[k] = c

DigitValue(c) == (CHOOSE k \in DOMAIN DigitChars : DigitChars[k] = c) - 1

\* int(chars) of a run of digits
RECURSIVE NumberOf(_)
NumberOf(chars) ==
    IF chars = <<>> THEN 0
    ELSE 10 * NumberOf(SubSeq(chars, 1, Len(chars) - 1))
            + DigitValue(chars[Len(chars)])

\* the digits of n, zero-padded to width characters
RECURSIVE DigitsOf(_, _)
DigitsOf(n, width) ==
    IF width = 0 THEN <<>>
    ELSE Append(DigitsOf(n \div 10, width - 1), DigitChars[(n % 10) + 1])

\* the formats _normalize_date tries, in order: separator, digits of the year
DateFormats ==
    << [sep |-> "/", ylen |-> 4], [sep |-> "-", ylen |-> 4],
       [sep |-> "/", ylen |-> 2], [sep |-> "-", ylen |-> 2] >>

\* day, month and year of a text with two separators
DateFields(s) ==
    LET seps == { k \in DOMAIN s : ~IsDigit(s[k]) }
    IN  IF Cardinality(seps) # 2
        THEN [ok |-> FALSE, day |-> <<>>, month |-> <<>>, year |-> <<>>,
              sep1 |-> "", sep2 |-> ""]
        ELSE [ok |-> TRUE,
              day |-> SubSeq(s, 1, Min(seps) - 1),
              month |-> SubSeq(s, Min(seps) + 1, Max(seps) - 1),
              year |-> SubSeq(s, Max(seps) + 1, Len(s)),
              sep1 |-> s[Min(seps)], sep2 |-> s[Max(seps)]]

\* %y: 69 to 99 are 1969 to 1999, 0 to 68 are 2000 to 2068
YearOf(chars) ==
    IF Len(chars) = 4 THEN NumberOf(chars)
    ELSE IF NumberOf(chars) >= 69 THEN 1900 + NumberOf(chars)
    ELSE 2000 + NumberOf(chars)

IsLeap(y) == (y % 4 = 0 /\ y % 100 # 0) \/ y % 400 = 0

DaysIn(m, y) ==
    IF m = 2 THEN (IF IsLeap(y) THEN 29 ELSE 28)
    ELSE IF m \in {4, 6, 9, 11} THEN 30 ELSE 31

\* datetime.datetime.strptime(date_str, fmt) does not raise
ParsesAs(s, fmt) ==
    LET f == DateFields(s)
    IN  /\ f.ok
        /\ f.sep1 = fmt.sep /\ f.sep2 = fmt.sep
        /\ Len(f.day) \in {1, 2} /\ Len(f.month) \in {1, 2}
        /\ Len(f.year) = fmt.ylen
        /\ NumberOf(f.month) \in 1..12
        /\ NumberOf(f.day) >= 1
        /\ NumberOf(f.day) <= DaysIn(NumberOf(f.month), YearOf(f.year))

\* dt.strftime("%Y-%m-%d")
IsoDate(s) ==
    LET f == DateFields(s)
    IN  DigitsOf(YearOf(f.year), 4) \o <<"-">> \o DigitsOf(NumberOf(f.month), 2)
            \o <<"-">> \o DigitsOf(NumberOf(f.day), 2)

\* _normalize_date(date_str)
_normalize_date(date_str) ==
    LET fits == { k \in DOMAIN DateFormats : ParsesAs(date_str, DateFormats[k]) }
    IN  IF fits = {} THEN date_str ELSE IsoDate(date_str)

(* Inputs: tokens that are a printed date or a word *)

DateTexts ==
    { <<"2", "3", "/", "1", "0", "/", "2", "0", "2", "5">>,
      <<"2", "3", "-", "1", "0", "-", "2", "5">>,
      <<"1", "/", "2", "/", "2", "5">>,
      <<"5", "/", "1", "1", "/", "9", "9">>,
      <<"2", "9", "/", "0", "2", "/", "2", "0", "2", "4">>,
      <<"2", "9", "/", "0", "2", "/", "2", "0", "2", "5">>,
      <<"3", "1", "/", "0", "2", "/", "2", "0", "2", "5">>,
      <<"2", "3", "/", "1", "3", "/", "2", "5">>,
      <<"2", "3", "/", "1", "0", "-", "2", "0", "2", "5">>,
      <<"2", "3", "/", "1", "0", "/", "0", "2", "5">> }

WordText == <<"D", "a", "t", "e", "d">>

\* DATE_RE.findall(text): the date a token text holds, <<>> for none
DateIn(text) == IF text \in DateTexts THEN text ELSE <<>>

MaxDtTokens == 2

DtIdle ==
    [pc |-> "idle", tokens |-> <<>>, date_match |-> <<>>, value |-> <<>>,
     raw |-> <<>>]

DtStart ==
    { [DtIdle EXCEPT !.pc = "start", !.tokens = t] :
        t \in SeqsUpTo(DateTexts \cup {WordText}, MaxDtTokens) }

\* dates = DATE_RE.findall(joined); date_match = dates[0] if dates else None
DtFindDates ==
    /\ dt.pc = "start"
    /\ LET found == [k \in DOMAIN dt.tokens |-> DateIn(dt.tokens[k])]
           dates == FilterSeq(found, [d \in Range(found) |-> d # <<>>])
       IN  dt' = [dt EXCEPT !.date_match = IF dates = <<>> THEN <<>> ELSE dates[1],
                            !.pc = "date"]

\* "value": _normalize_date(date_match[0]), "raw": date_match[0]
DtDate ==
    /\ dt.pc = "date"
    /\ dt.date_match # <<>>
    /\ dt' = [dt EXCEPT !.value = _normalize_date(<<dt.date_match[1]>>),
                        !.raw = <<dt.date_match[1]>>,
                        !.pc = "done"]

\* "value": None, "raw": None
DtNoDate ==
    /\ dt.pc = "date"
    /\ dt.date_match = <<>>
    /\ dt' = [dt EXCEPT !.pc = "done"]

DtNext ==
    /\ \/ DtFindDates
       \/ DtDate
       \/ DtNoDate
    /\ UNCHANGED <<rc, gr, bn, hd, ex, tb, fb, ap, tr, fx, gs, rw, oc>>

-----------------------------------------------------------------------------
(* app.py: the rows of the pages in the parse endpoint, and
   table_extract.py: the rowId extract_table gives.  A page is the sequence
   of its table rows, TRUE for a row that becomes a line item (it has a
   description and a quantity and no header keyword). *)

\* str(n) for n >= 0
RECURSIVE Decimal(_)
Decimal(n) ==
    IF n < 10 THEN <<DigitChars[n + 1]>>
    ELSE Append(Decimal(n \div 10), DigitChars[(n % 10) + 1])

\* rowId=f"r{i+1}", i the index of the row among the rows of the page
RowIdOf(i) == <<"r">> \o Decimal(i + 1)

PageRowIdBare(page_idx, rowId) == rowId
\* row.rowId = f"p{page_idx + 1}_{row.rowId}"
PageRowId(page_idx, rowId) == <<"p">> \o Decimal(page_idx + 1) \o <<"_">> \o rowId

\* line_items of extract_table for a page
LineItemsOf(page) ==
    LET all == [i \in DOMAIN page |-> [row |-> i - 1, rowId |-> RowIdOf(i - 1)]]
    IN  FilterSeq(all, [it \in Range(all) |-> page[it.row + 1]])

(* Inputs: uploads of a few short pages, and one of eleven pages whose first
   page has eleven rows *)

MaxRwPages == 2

PageShapes ==
    { <<>>, <<TRUE>>, <<FALSE>>, <<TRUE, TRUE>>, <<FALSE, TRUE>>,
      <<TRUE, FALSE, TRUE>> }

LongPage == [i \in 1..11 |-> i \in {1, 11}]

LongUpload == [p \in 1..11 |-> IF p = 1 THEN LongPage ELSE <<TRUE>>]

RwUploads == SeqsUpTo(PageShapes, MaxRwPages) \cup {LongUpload}

RwIdle ==
    [pc |-> "idle", pages |-> <<>>, page_idx |-> 0, page_rows |-> <<>>,
     all_rows |-> <<>>, lines |-> <<>>]

RwStart == { [RwIdle EXCEPT !.pc = "page", !.pages = u] : u \in RwUploads }

\* table = extract_table(tokens, processed_img); page_rows = table.get("rows", [])
RwExtractTable ==
    /\ rw.pc = "page"
    /\ rw.page_idx < Len(rw.pages)
    /\ LET items == LineItemsOf(rw.pages[rw.page_idx + 1])
       IN  rw' = [rw EXCEPT !.page_rows =
                                [k \in DOMAIN items |->
                                    [page |-> rw.page_idx, row |-> items[k].row,
                                     rowId |-> items[k].rowId]],
                            !.pc = "rows"]

\* the rowId of each row gets the page; all_rows.extend(page_rows)
RwExtend ==
    /\ rw.pc = "rows"
    /\ rw' = [rw EXCEPT !.all_rows =
                            @ \o [k \in DOMAIN rw.page_rows |->
                                    [rw.page_rows[k] EXCEPT
                                        !.rowId = PageRowId(rw.page_idx, @)]],
                        !.page_rows = <<>>,
                        !.page_idx = @ + 1,
                        !.pc = "page"]

\* build_response: "lines": [to_dict(r) for r in rows]
RwRespond ==
    /\ rw.pc = "page"
    /\ rw.page_idx >= Len(rw.pages)
    /\ rw' = [rw EXCEPT !.lines = rw.all_rows, !.pc = "done"]

RwNext ==
    /\ \/ RwExtractTable
       \/ RwExtend
       \/ RwRespond
    /\ UNCHANGED <<rc, gr, bn, hd, ex, tb, fb, ap, tr, fx, gs, dt, oc>>

-----------------------------------------------------------------------------
(* ocr_engine.py: get_ocr under concurrent requests.  health is a plain def,
   which the server runs in a thread of its pool; parse, visualize and
   parse_structured are coroutines and call get_ocr, without awaiting, in the
   thread of the event loop.  A thread makes its calls one after the other;
   the interpreter can switch threads while PaddleOCR(...) is running (model
   files are loaded) and between the statements of get_ocr.  The constructor
   is taken to succeed. *)

\* the threads: two of the pool that run health, and the event loop
Threads == {"health_1", "health_2", "parse"}

NoEngine == 0       \* _OCR = None

MaxCalls == 2

OcIdle ==
    [_OCR |-> NoEngine, made |-> 0, pc |-> [t \in Threads |-> "idle"],
     calls |-> [t \in Threads |-> 0], returned |-> {}]

\* a handler calls get_ocr()
OcCall(t) ==
    /\ oc.pc[t] = "idle"
    /\ oc.calls[t] < MaxCalls
    /\ oc' = [oc EXCEPT !.pc[t] = "test", !.calls[t] = @ + 1]

\* if _OCR is None: the constructor is entered
OcTestNone(t) ==
    /\ oc.pc[t] = "test"
    /\ oc._OCR = NoEngine
    /\ oc' = [oc EXCEPT !.pc[t] = "construct"]

\* if _OCR is None fails
OcTestSet(t) ==
    /\ oc.pc[t] = "test"
    /\ oc._OCR # NoEngine
    /\ oc' = [oc EXCEPT !.pc[t] = "return"]

\* _OCR = PaddleOCR(...): the constructor returns a new instance, which is
\* stored in the global
OcConstruct(t) ==
    /\ oc.pc[t] = "construct"
    /\ oc' = [oc EXCEPT !.made = @ + 1, !._OCR = oc.made + 1, !.pc[t] = "return"]

\* return _OCR
OcReturn(t) ==
    /\ oc.pc[t] = "return"
    /\ oc' = [oc EXCEPT !.returned = @ \cup {oc._OCR}, !.pc[t] = "idle"]

OcNext ==
    /\ \E t \in Threads :
          \/ OcCall(t)
          \/ OcTestNone(t)
          \/ OcTestSet(t)
          \/ OcConstruct(t)
          \/ OcReturn(t)
    /\ UNCHANGED <<rc, gr, bn, hd, ex, tb, fb, ap, tr, fx, gs, dt, rw>>

-----------------------------------------------------------------------------
(* Specifications: one per part of the engine, the other parts idle *)

InitReconcile == ex = ExIdle /\ gr = GrIdle /\ bn = BnIdle /\ hd = HdIdle /\ rc \in RcStart /\ tb = TbIdle /\ fb = FbIdle /\ ap = ApIdle /\ tr = TrIdle /\ fx = FxIdle /\ gs = GsIdle /\ dt = DtIdle /\ rw = RwIdle /\ oc = OcIdle

SpecReconcile == InitReconcile /\ [][RcNext]_vars

InitRows == ex = ExIdle /\ rc = RcIdle /\ bn = BnIdle /\ hd = HdIdle /\ gr \in GrStart /\ tb = TbIdle /\ fb = FbIdle /\ ap = ApIdle /\ tr = TrIdle /\ fx = FxIdle /\ gs = GsIdle /\ dt = DtIdle /\ rw = RwIdle /\ oc = OcIdle

SpecRows == InitRows /\ [][GrNext]_vars

InitBounds == ex = ExIdle /\ rc = RcIdle /\ gr = GrIdle /\ hd = HdIdle /\ bn \in BnStart /\ tb = TbIdle /\ fb = FbIdle /\ ap = ApIdle /\ tr = TrIdle /\ fx = FxIdle /\ gs = GsIdle /\ dt = DtIdle /\ rw = RwIdle /\ oc = OcIdle

SpecBounds == InitBounds /\ [][BnNext]_vars

InitHeader == ex = ExIdle /\ rc = RcIdle /\ gr = GrIdle /\ bn = BnIdle /\ hd \in HdStart /\ tb = TbIdle /\ fb = FbIdle /\ ap = ApIdle /\ tr = TrIdle /\ fx = FxIdle /\ gs = GsIdle /\ dt = DtIdle /\ rw = RwIdle /\ oc = OcIdle

SpecHeader == InitHeader /\ [][HdNext]_vars

InitExtract ==
    rc = RcIdle /\ gr = GrIdle /\ bn = BnIdle /\ hd = HdIdle /\ ex \in ExStart /\ tb = TbIdle /\ fb = FbIdle /\ ap = ApIdle /\ tr = TrIdle /\ fx = FxIdle /\ gs = GsIdle /\ dt = DtIdle /\ rw = RwIdle /\ oc = OcIdle

SpecExtract == InitExtract /\ [][ExNext]_vars

InitTable ==
    rc = RcIdle /\ gr = GrIdle /\ bn = BnIdle /\ hd = HdIdle /\ ex = ExIdle
    /\ tb \in TbStart /\ fb = FbIdle /\ ap = ApIdle /\ tr = TrIdle /\ fx = FxIdle /\ gs = GsIdle /\ dt = DtIdle /\ rw = RwIdle /\ oc = OcIdle

SpecTable == InitTable /\ [][TbNext]_vars

InitFallback ==
    rc = RcIdle /\ gr = GrIdle /\ bn = BnIdle /\ hd = HdIdle /\ ex = ExIdle
    /\ tb = TbIdle /\ fb \in FbStart /\ ap = ApIdle /\ tr = TrIdle /\ fx = FxIdle /\ gs = GsIdle /\ dt = DtIdle /\ rw = RwIdle /\ oc = OcIdle

SpecFallback == InitFallback /\ [][FbNext]_vars

InitParse ==
    rc = RcIdle /\ gr = GrIdle /\ bn = BnIdle /\ hd = HdIdle /\ ex = ExIdle
    /\ tb = TbIdle /\ fb = FbIdle /\ ap \in ApStart /\ tr = TrIdle /\ fx = FxIdle /\ gs = GsIdle /\ dt = DtIdle /\ rw = RwIdle /\ oc = OcIdle

SpecParse == InitParse /\ [][ApNext]_vars

InitTransposed ==
    rc = RcIdle /\ gr = GrIdle /\ bn = BnIdle /\ hd = HdIdle /\ ex = ExIdle
    /\ tb = TbIdle /\ fb = FbIdle /\ ap = ApIdle /\ tr \in TrStart /\ fx = FxIdle /\ gs = GsIdle /\ dt = DtIdle /\ rw = RwIdle /\ oc = OcIdle

SpecTransposed == InitTransposed /\ [][TrNext]_vars

InitFix ==
    rc = RcIdle /\ gr = GrIdle /\ bn = BnIdle /\ hd = HdIdle /\ ex = ExIdle
    /\ tb = TbIdle /\ fb = FbIdle /\ ap = ApIdle /\ tr = TrIdle /\ fx \in FxStart /\ gs = GsIdle /\ dt = DtIdle /\ rw = RwIdle /\ oc = OcIdle

SpecFix == InitFix /\ [][FxNext]_vars

InitGstin ==
    rc = RcIdle /\ gr = GrIdle /\ bn = BnIdle /\ hd = HdIdle /\ ex = ExIdle
    /\ tb = TbIdle /\ fb = FbIdle /\ ap = ApIdle /\ tr = TrIdle /\ fx = FxIdle
    /\ gs \in GsStart /\ dt = DtIdle /\ rw = RwIdle /\ oc = OcIdle

SpecGstin == InitGstin /\ [][GsNext]_vars

InitDate ==
    rc = RcIdle /\ gr = GrIdle /\ bn = BnIdle /\ hd = HdIdle /\ ex = ExIdle
    /\ tb = TbIdle /\ fb = FbIdle /\ ap = ApIdle /\ tr = TrIdle /\ fx = FxIdle
    /\ gs = GsIdle /\ dt \in DtStart /\ rw = RwIdle /\ oc = OcIdle

SpecDate == InitDate /\ [][DtNext]_vars

InitPages ==
    rc = RcIdle /\ gr = GrIdle /\ bn = BnIdle /\ hd = HdIdle /\ ex = ExIdle
    /\ tb = TbIdle /\ fb = FbIdle /\ ap = ApIdle /\ tr = TrIdle /\ fx = FxIdle
    /\ gs = GsIdle /\ dt = DtIdle /\ rw \in RwStart /\ oc = OcIdle

SpecPages == InitPages /\ [][RwNext]_vars

InitOcr ==
    rc = RcIdle /\ gr = GrIdle /\ bn = BnIdle /\ hd = HdIdle /\ ex = ExIdle
    /\ tb = TbIdle /\ fb = FbIdle /\ ap = ApIdle /\ tr = TrIdle /\ fx = FxIdle
    /\ gs = GsIdle /\ dt = DtIdle /\ rw = RwIdle /\ oc = OcIdle

SpecOcr == InitOcr /\ [][OcNext]_vars

-----------------------------------------------------------------------------
(* C1 *)

\* The gross the reconciliation reads from the document: reconcile_totals
\* takes extracted_totals.get("gross", 0.0) of (extracted_totals or {}).
ExtractedGross ==
    IF rc.extracted.isNone THEN 0 ELSE Get(rc.extracted.d, "gross", 0)

\* C1: in every response built by build_response, reconciled is true exactly
\* when |extracted gross - computed gross| <= tolerance, for every extracted
\* totals record (one without a gross, and no extracted totals, included).
C1_ReconciledIffWithinTolerance ==
    rc.pc = "done" =>
        (rc.totals.reconciled <=>
            Abs(ExtractedGross - rc.totals.computedGross) <= ReconcileTolerance)

-----------------------------------------------------------------------------
(* C6, C7 *)

\* C6 as stated: in every row group_rows returns, any two tokens are within
\* y_tol of each other vertically.
C6_PairwiseWithinTolerance ==
    gr.pc = "done" =>
        \A r \in DOMAIN gr.rows : \A a, b \in DOMAIN gr.rows[r] :
            Abs(gr.rows[r][a].cy - gr.rows[r][b].cy) <= YTol

\* C6 amended: every token that joined an open row was, when it joined,
\* within y_tol of the median centerY of the tokens already in that row
\* (rows hold their tokens in joining order until the final sort).
C6_JoinWithinToleranceOfMedian ==
    gr.pc = "group" =>
        \A r \in DOMAIN gr.rows : \A k \in 2..Len(gr.rows[r]) :
            Abs(2 * gr.rows[r][k].cy
                - Median2(RowCys(SubSeq(gr.rows[r], 1, k - 1)))) <= 2 * YTol

\* a row of three tokens whose first and last are further apart than y_tol
C6_Witness ==
    /\ gr.pc = "group"
    /\ \E r \in DOMAIN gr.rows :
          /\ Len(gr.rows[r]) >= 3
          /\ \E a, b \in DOMAIN gr.rows[r] :
                Abs(gr.rows[r][a].cy - gr.rows[r][b].cy) > YTol

\* C7 as stated: in every row group_rows returns, leftX strictly increases.
C7_StrictlyOrderedByLeft ==
    gr.pc = "done" =>
        \A r \in DOMAIN gr.rows : \A k \in 1..(Len(gr.rows[r]) - 1) :
            gr.rows[r][k].left < gr.rows[r][k + 1].left

\* C7 amended: in every row group_rows returns, leftX never decreases (tokens
\* with the same leftX stay in the row, side by side).
C7_OrderedByLeft ==
    gr.pc = "done" =>
        \A r \in DOMAIN gr.rows : \A k \in 1..(Len(gr.rows[r]) - 1) :
            gr.rows[r][k].left <= gr.rows[r][k + 1].left

\* a returned row that the sort had to reorder and that holds two tokens with
\* the same leftX
C7_Witness ==
    /\ gr.pc = "done"
    /\ \E r \in DOMAIN gr.rows :
          /\ \E k \in 1..(Len(gr.rows[r]) - 1) :
                /\ gr.rows[r][k].left < gr.rows[r][k + 1].left
                /\ gr.rows[r][k].cy > gr.rows[r][k + 1].cy
          /\ \E k \in 1..(Len(gr.rows[r]) - 1) :
                gr.rows[r][k].left = gr.rows[r][k + 1].left

-----------------------------------------------------------------------------
(* C5 *)

\* the x coordinates a bound can hold at all: compute_bounds never reaches
\* beyond -1e6 - expand_px and 1e6
InReach(x) == FarLeft <= x /\ x <= FarRight

\* the x coordinates examined: the grid, and every edge of the bounds with
\* the positions right next to it
XsAround(bounds) ==
    ProbeCxs \cup UNION { { bounds[k].l + d, bounds[k].r + d } :
                            k \in DOMAIN bounds, d \in -1..1 }

\* C5 as stated: the bounds compute_bounds returns are ordered, do not
\* overlap, leave no gap, and every x coordinate lies in exactly one of them.
C5_ExactlyOneBound ==
    bn.pc \in {"bounds", "done"} =>
        /\ \A k \in 1..(Len(bn.bounds) - 1) : bn.bounds[k].r <= bn.bounds[k + 1].l
        /\ \A x \in XsAround(bn.bounds) : InReach(x) => Cardinality(Holding(bn.bounds, x)) = 1

\* C5 amended: the bounds are ordered and leave no gap between -1e6 and 1e6,
\* each bound overlaps the next by exactly 2 * expand_px, every x in that
\* range lies in one bound or in two adjacent ones, and assign_cols puts a
\* token in exactly one column, the leftmost whose bound holds its centerX.
C5_OrderedCoveringOverlapping ==
    bn.pc \in {"bounds", "done"} =>
        /\ Len(bn.bounds) >= 1
        /\ bn.bounds[1].l <= FarLeft /\ bn.bounds[Len(bn.bounds)].r = FarRight
        /\ \A k \in DOMAIN bn.bounds : bn.bounds[k].l < bn.bounds[k].r
        /\ \A k \in 1..(Len(bn.bounds) - 1) :
              /\ bn.bounds[k].l < bn.bounds[k + 1].l
              /\ bn.bounds[k].r < bn.bounds[k + 1].r
              /\ bn.bounds[k + 1].l = bn.bounds[k].r - 2 * ExpandPx
        /\ \A x \in XsAround(bn.bounds) : InReach(x) =>
              /\ Holding(bn.bounds, x) # {}
              /\ \E k \in DOMAIN bn.bounds : Holding(bn.bounds, x) \subseteq {k, k + 1}
        /\ (bn.pc = "done" /\ InReach(bn.cx)) =>
              /\ bn.col \in Holding(bn.bounds, bn.cx)
              /\ \A k \in Holding(bn.bounds, bn.cx) : bn.col <= k

\* an anchor row of four tokens of which a narrow bound was merged, and a
\* token whose centerX lies in the overlap of two bounds
C5_Witness ==
    /\ bn.pc = "done"
    /\ Len(bn.header) = 4
    /\ Len(bn.bounds) \in 2..3
    /\ Cardinality(Holding(bn.bounds, bn.cx)) = 2

-----------------------------------------------------------------------------
(* C9, C10 *)

\* the rows with at least two header keywords and at least three tokens
KeywordRows(rows) ==
    { i \in 0..(Len(rows) - 1) :
        /\ Cardinality(UNION { KeywordsIn(t) : t \in Range(RowTexts(rows[i + 1])) }) >= 2
        /\ Len(rows[i + 1]) >= 3 }

\* C9, as stated: when any row of the document has at least two header
\* keywords and at least three tokens, find_header_soft returns the first
\* such row as the anchor and the row after it as the row to parse from.
C9_FirstKeywordRowOfDocument ==
    (hd.pc = "done" /\ KeywordRows(hd.rows) # {}) =>
        hd.result = Found(Min(KeywordRows(hd.rows)), Min(KeywordRows(hd.rows)) + 1)

\* C9, amended: when any of the first 30 rows has at least two header
\* keywords and at least three tokens, find_header_soft returns the first
\* such row as the anchor and the row after it as the row to parse from,
\* whatever the other strategies would find.
C9_FirstKeywordRowOfFirstThirty ==
    LET early == { i \in KeywordRows(hd.rows) : i < 30 }
    IN  (hd.pc = "done" /\ early # {}) =>
            hd.result = Found(Min(early), Min(early) + 1)

\* a keyword row found behind an earlier row that the strong-keyword strategy
\* would have taken
C9_Witness ==
    /\ hd.pc = "done"
    /\ \E i \in KeywordRows(hd.rows) :
          /\ i < 30
          /\ hd.result = Found(i, i + 1)
          /\ \E k \in 0..(i - 1) :
                HasStrongKeyword(hd.rows[k + 1]) /\ Len(hd.rows[k + 1]) >= 3

\* the rows holding a strong anchor keyword
StrongRows(rows) ==
    { i \in 0..(Len(rows) - 1) : \E t \in Range(RowTexts(rows[i + 1])) : StrongIn(t) }

\* the rows among the 10 rows following row i with at least two numeric
\* tokens and at least three tokens
DataRowsInTen(rows, i) ==
    { j \in (i + 1)..(i + 10) :
        /\ j < Len(rows)
        /\ SumSeq([k \in DOMAIN rows[j + 1] |-> NumericIn(rows[j + 1][k].text)]) >= 2
        /\ Len(rows[j + 1]) >= 3 }

\* C10: when the keyword strategy finds no row and row i is the first row
\* holding a strong anchor keyword, the geometry row is the first row among
\* the 10 rows following i with at least two numeric tokens and at least
\* three tokens, and parsing resumes at row i + 1.
C10_FirstDataRowInTenFollowing ==
    (/\ hd.pc = "done"
     /\ KeywordRows(hd.rows) = {}
     /\ StrongRows(hd.rows) # {}
     /\ DataRowsInTen(hd.rows, Min(StrongRows(hd.rows))) # {})
    => hd.result = Found(Min(DataRowsInTen(hd.rows, Min(StrongRows(hd.rows)))),
                         Min(StrongRows(hd.rows)) + 1)

-----------------------------------------------------------------------------
(* C2, C3, C4, C8 *)

\* C2: every line item extract_invoice_structured returns, whichever parser
\* produced it, carries at least one value among taxableValue, unitPrice and
\* hsn that is not None; that value is, more than that, neither 0 nor empty.
C2_ReturnedItemsCarryValue ==
    \A k \in DOMAIN ex.out.items :
        LET it == ex.out.items[k]
        IN  /\ it.taxableValue # Absent \/ it.unitPrice # Absent \/ it.hsn # ""
            /\ \/ it.taxableValue \notin {Absent, 0}
               \/ it.unitPrice \notin {Absent, 0}
               \/ it.hsn # ""

\* the table parser produced items, one of them with nothing but a zero
\* amount, and the call returned the others
C2_Witness ==
    /\ ex.pc = "returned"
    /\ ex.ranTable /\ ~ex.ranFallback
    /\ ex.out.items # <<>>
    /\ Len(ex.out.items) < Len(ex.parsed)

C4_TransformReturnsStructure ==
    ex.via = "transform" =>
        /\ ex.pc # "propagated"
        /\ ex.pc = "done" =>
              {"invoice", "seller", "buyer", "items", "totals", "meta"}
                  \subseteq ex.result.keys

\* the geometry extractor raised, the regex path raised as well, and
\* transform_invoice returned
C4_Witness ==
    /\ ex.via = "transform"
    /\ ex.pc = "done"
    /\ ex.ocr.kind = "textNone"
    /\ ex.exc # ""
    /\ ex.result.items = <<>>

\* C8: the fallback line parser runs if and only if no anchor row was found
\* or the table parser returned zero items; when the table parser returns
\* at least one item the fallback parser is not run and the returned items
\* are those of the table parser (as postprocessed).
C8_FallbackIffNoTableItems ==
    ex.pc \in {"post", "returned"} =>
        /\ ex.ranFallback <=> (~ex.header.found \/ ex.tableItems = <<>>)
        /\ ex.tableItems # <<>> =>
              /\ ~ex.ranFallback
              /\ ex.pc = "returned" => ex.parsed = ex.tableItems

\* an anchor row was found, the table parser returned no item and the
\* fallback parser supplied the items returned
C8_Witness ==
    /\ ex.pc = "returned"
    /\ ex.header.found /\ ex.ranTable
    /\ ex.tableItems = <<>>
    /\ ex.ranFallback
    /\ ex.out.items # <<>>

-----------------------------------------------------------------------------
(* C11, C15, C18 *)

\* a totals marker as the specification lists them: total, sub total, amount
\* chargeable, round off, tax amount, invoice amount in words
ListedTotalsMarker(row) ==
    \E k \in DOMAIN row : row[k].text \in {"Total", "Invoice Amount In Words"}

\* C11: the table parser stops at the first row from the parse start on whose
\* text matches a totals marker of the list (total, sub total, amount
\* chargeable, round off, tax amount, invoice amount in words): no line item
\* is made of that row or of a row after it, and no such row is merged into
\* the description of an item.
C11_NoItemFromTotalsRowOn ==
    \A k \in DOMAIN tb.items :
        tb.items[k].row # NoIdx =>
            \A j \in tb.header.start_parse_idx..tb.items[k].row :
                ~ListedTotalsMarker(tb.rows[j + 1])

\* C15 (as the specification states it): when the anchor row has fewer than
\* three tokens there is one column holding everything, and every row from the
\* parse start up to the first totals row that holds a number with two
\* decimals still yields a line item with that row's amount.
C15_ShortAnchorRowsYieldAmounts ==
    (tb.pc = "done" /\ Len(tb.rows[tb.header.header_idx + 1]) < MinHeaderTokens) =>
        /\ tb.bounds = << [l |-> FarLeft, r |-> FarRight] >>
        /\ \A j \in tb.header.start_parse_idx..(Len(tb.rows) - 1) :
              ( /\ AmountCount(tb.rows[j + 1]) > 0
                /\ \A h \in tb.header.start_parse_idx..j :
                      ~RowHasTotalsMarker(tb.rows[h + 1]) )
                  => \E k \in DOMAIN tb.items : tb.items[k].row = j

\* the rows the loop of the table parser has been through
RowsDone == tb.header.start_parse_idx..(tb.i - 1)

NoAmountInRow(j) ==
    \A c \in DOMAIN tb.bounds : RowAmounts(tb.rows[j + 1], tb.bounds)[c] = Absent

BareNumberRow(j) ==
    Len(tb.rows[j + 1]) = 1 /\ tb.rows[j + 1][1].text \in {"1", "2520"}

\* the row before the first row that can be buffered for item k
RowBeforeItem(k) ==
    IF k = 1 THEN tb.header.start_parse_idx - 1 ELSE tb.items[k - 1].row

RowOfLastItem ==
    IF tb.items = <<>> THEN tb.header.start_parse_idx - 1
    ELSE tb.items[Len(tb.items)].row

Ascending(s) == \A p, q \in DOMAIN s : p < q => s[p] < s[q]

\* the text of a buffered row in a description: a row number it begins with
\* is left out
TextWithoutRowNumber(texts) ==
    IF Len(texts) > 1 /\ texts[1] \in {"1", "2520"} THEN Tail(texts) ELSE texts

\* C18 (as the specification states it): every row with text and no
\* extractable amount is held in the description buffer until the next row
\* with an amount, the description of that row's item holds the text of every
\* buffered row in row order, and the buffer is empty after each item.
C18_EveryTextRowBuffered ==
    (tb.pc \in {"row", "done"} /\ ~tb.transposed) =>
        /\ \A j \in RowsDone : NoAmountInRow(j) => j \in tb.buffered
        /\ \A k \in DOMAIN tb.items :
              /\ Ascending(tb.items[k].pending)
              /\ Range(tb.items[k].pending) =
                    { j \in (RowBeforeItem(k) + 1)..(tb.items[k].row - 1) :
                        NoAmountInRow(j) }
              /\ \A p \in DOMAIN tb.items[k].pending :
                    tb.items[k].description[p] =
                        RowTexts(tb.rows[tb.items[k].pending[p] + 1])
        /\ Range(tb.pending) = { j \in RowsDone : j > RowOfLastItem }

\* C18: a row without an extractable amount is buffered unless it is a bare
\* number; the rows buffered since the item before go, in row order, into the
\* description of the item of the next row with an amount, each with its text
\* but for a row number it begins with, and into no other item; after an item
\* the buffer holds just the rows buffered since.
C18_BufferedRowsGoToNextItem ==
    (tb.pc \in {"row", "done"} /\ ~tb.transposed) =>
        /\ \A j \in RowsDone :
              j \in tb.buffered <=> (NoAmountInRow(j) /\ ~BareNumberRow(j))
        /\ \A k \in DOMAIN tb.items :
              /\ Ascending(tb.items[k].pending)
              /\ Range(tb.items[k].pending) =
                    { j \in tb.buffered :
                        RowBeforeItem(k) < j /\ j < tb.items[k].row }
              /\ Len(tb.items[k].description) >= Len(tb.items[k].pending)
              /\ \A p \in DOMAIN tb.items[k].pending :
                    tb.items[k].description[p] =
                        TextWithoutRowNumber(
                            RowTexts(tb.rows[tb.items[k].pending[p] + 1]))
        /\ Ascending(tb.pending)
        /\ Range(tb.pending) = { j \in tb.buffered : j > RowOfLastItem }

\* an item was made after a bare number was passed over and a row that begins
\* with a row number was buffered, and the buffer is empty after it
C18_Witness ==
    /\ tb.pc = "done"
    /\ ~tb.transposed
    /\ tb.skipped # {}
    /\ tb.pending = <<>>
    /\ \E k \in DOMAIN tb.items : \E p \in DOMAIN tb.items[k].pending :
          LET row == tb.rows[tb.items[k].pending[p] + 1]
          IN  Len(row) > 1 /\ row[1].text = "1"

-----------------------------------------------------------------------------
(* C12 *)

\* the lines of filtered that hold a totals marker, counted from 0
TotalsLines == { m \in 0..(Len(fb.filtered) - 1) : LineHasTotalsMarker(fb.filtered[m + 1]) }

\* C12: the fallback line parser stops at the first totals-marker line: no
\* item it returns is made of the text of the first totals-marker line or of
\* a line after it, also when a line is merged with the one or two lines
\* that follow it.
C12_NoItemFromTotalsLineOn ==
    \A k \in DOMAIN fb.items :
        \A m \in TotalsLines : fb.items[k].last < m

-----------------------------------------------------------------------------
(* C13, C14 *)

\* C13: in every response built by build_response from an extracted-totals
\* record, totals.roundOffDelta is the signed difference extracted gross
\* minus computed gross, rounded to 2 decimals, also when the record carries
\* a printed round-off value.
C13_RoundOffDeltaIsDifference ==
    (rc.pc = "done" /\ ~rc.extracted.isNone /\ Truthy(rc.extracted.d)) =>
        rc.totals.roundOffDelta = Round2(ExtractedGross - rc.totals.computedGross)

\* the document prints none of cgst, sgst and igst
NoSplitPrinted ==
    rc.extracted.isNone
      \/ \A k \in {"cgst", "sgst", "igst"} : ~Has(rc.extracted.d, k)

\* C14: when the document prints no CGST/SGST/IGST split, the totals built by
\* build_response have cgst = sgst = tax/2 and igst = 0 for an intra-state
\* invoice, and igst = tax and cgst = sgst = 0 otherwise.
C14_SplitFollowsIntraState ==
    (rc.pc = "done" /\ NoSplitPrinted) =>
        IF rc.intra
        THEN /\ 2 * rc.totals.cgst = rc.totals.tax
             /\ rc.totals.sgst = rc.totals.cgst
             /\ rc.totals.igst = 0
        ELSE /\ rc.totals.igst = rc.totals.tax
             /\ rc.totals.cgst = 0
             /\ rc.totals.sgst = 0

-----------------------------------------------------------------------------
(* C16 *)

\* the pages of the upload for which the OCR engine returns tokens
PagesWithTokens == { p \in DOMAIN ap.upload.pages : ap.upload.pages[p].tokens }

\* C16: a parse request that is not turned down for the quality of the image
\* fails with the 'no text detected' error exactly when the token stream of
\* the whole document is empty; a document of which at least one page yields
\* tokens is parsed and a structured result is returned.
C16_NoTextIffNoTokensAtAll ==
    (ap.pc = "done" /\ ap.outcome # "badQuality") =>
        /\ ap.outcome = "noText" <=> PagesWithTokens = {}
        /\ PagesWithTokens # {} => ap.outcome = "response"

-----------------------------------------------------------------------------
(* C17 *)

\* two rows have as many tokens as each other, and at least 80% of the
\* tokens of the one are less than 20 px (40 half pixels) left or right of
\* the token at the same position of the other
RowsAgree(a, b) ==
    /\ Len(a) = Len(b)
    /\ 5 * Cardinality({ p \in DOMAIN a : Abs(a[p].left - b[p].left) < 40 })
         >= 4 * Len(a)

\* the rows is_transposed_table samples, as row numbers counted from 1: the
\* first 5 rows of 3 or more tokens among the first 15 rows of the window
SampledRowNumbers ==
    LET wide == { i \in (tr.start_idx + 1)..Lesser(tr.start_idx + 15, tr.end_idx) :
                    Len(tr.rows[i]) >= 3 }
    IN  { i \in wide : Cardinality({ j \in wide : j < i }) < 5 }

\* C17 as stated: is_transposed_table reports the table as transposed exactly
\* when at least 2 pairs of sampled rows agree in at least 80% of the leftX
\* values of their tokens.
C17_TransposedIffTwoPairsAgree ==
    tr.pc = "done" =>
        (tr.result <=>
            Cardinality({ pair \in SampledRowNumbers \X SampledRowNumbers :
                            /\ pair[1] < pair[2]
                            /\ RowsAgree(tr.rows[pair[1]], tr.rows[pair[2]]) }) >= 2)

\* C17: is_transposed_table samples the first 5 rows of 3 or more tokens
\* among the first 15 rows of the window and reports the table as transposed
\* exactly when the window has 3 or more rows and at least 2 of the sampled
\* rows after the first agree with the first sampled row: the same number of
\* tokens, and at least 80% of the leftX values less than 20 px apart.
C17_TransposedIffTwoRowsAgreeWithFirst ==
    tr.pc = "done" =>
        (tr.result <=>
            /\ tr.end_idx - tr.start_idx >= 3
            /\ SampledRowNumbers # {}
            /\ Cardinality({ i \in SampledRowNumbers :
                               /\ i # Min(SampledRowNumbers)
                               /\ RowsAgree(tr.rows[Min(SampledRowNumbers)],
                                            tr.rows[i]) }) >= 2)

\* a table reported as transposed of which 5 rows were sampled, one of them
\* not agreeing with the first, and a further row of 3 or more tokens was
\* left out of the sample
C17_Witness ==
    /\ tr.pc = "done"
    /\ tr.result
    /\ Len(tr.col_positions) = 5
    /\ \E k \in 2..5 : ~RowsAgree(tr.col_positions[1], tr.col_positions[k])
    /\ Cardinality({ i \in DOMAIN tr.rows : Len(tr.rows[i]) >= 3 }) > 5

-----------------------------------------------------------------------------
(* C19 *)

\* C19 (as the specification states it): try_fix_unit_tax exchanges unitPrice
\* and taxableValue whenever both are nonzero, the quantity is greater than 0
\* and unitPrice > 2 x taxableValue, and in no other case.
C19_SwapsIffTwiceTaxable ==
    fx.pc = "done" =>
        ( fx.outcome = "swapped" <=>
            /\ Nonzero(fx.item.unitPrice)
            /\ Nonzero(fx.item.taxableValue)
            /\ QtyNumber(fx.item.quantity) > 0
            /\ fx.item.unitPrice > 2 * fx.item.taxableValue )


-----------------------------------------------------------------------------
(* C20 *)

\* the rows that bear a GSTIN
GstinRows == { k \in DOMAIN gs.rows : gs.rows[k] \in {FirstGstinLine, SecondGstinLine} }

GstinOnRow(k) ==
    IF gs.rows[k] = FirstGstinLine THEN "27AAAAA0000A1Z5" ELSE "29BBBBB1111B1Z6"

NoBillToLabel == \A k \in DOMAIN gs.rows : gs.rows[k] # BillToLine

\* C20 (as the specification states it): for a document with two rows that
\* bear a GSTIN and no 'Bill To' label, wherever the two rows are, the seller
\* GSTIN is the first GSTIN from the top and the buyer GSTIN is the second.
C20_SellerFirstBuyerSecond ==
    (gs.pc = "done" /\ NoBillToLabel) =>
        /\ gs.seller = GstinOnRow(Min(GstinRows))
        /\ gs.buyer = GstinOnRow(Max(GstinRows))


-----------------------------------------------------------------------------
(* C21 *)

\* the first date among the tokens, as printed
PrintedDate ==
    LET k == Min({ j \in DOMAIN dt.tokens : dt.tokens[j] \in DateTexts })
    IN  dt.tokens[k]

\* C21 (as the specification states it): when a date is found among the
\* tokens, invoice.date.raw is the whole date as printed and
\* invoice.date.value is that date in ISO-8601 form when it parses and the
\* printed date otherwise.
C21_RawIsPrintedDateValueIsIso ==
    (dt.pc = "done" /\ \E j \in DOMAIN dt.tokens : dt.tokens[j] \in DateTexts) =>
        /\ dt.raw = PrintedDate
        /\ dt.value = _normalize_date(PrintedDate)


-----------------------------------------------------------------------------
(* C22 *)

\* C22: at every step of group_rows over the tokens that tokens_from_fulltext
\* returns, and in its result, no row holds two tokens with different page
\* indexes.
C22_RowsOfOnePage ==
    \A r \in DOMAIN gr.rows :
        \A a, b \in DOMAIN gr.rows[r] : gr.rows[r][a].page = gr.rows[r][b].page

\* the rows are built of tokens of two pages, with tokens of different pages
\* at heights that are within y_tol of each other
C22_Witness ==
    /\ gr.pc = "done"
    /\ Len(gr.rows) >= 3
    /\ \E a, b \in DOMAIN gr.tokens :
          /\ gr.tokens[a].page # gr.tokens[b].page
          /\ Abs(gr.tokens[a].cy - gr.tokens[b].cy) <= YTol


-----------------------------------------------------------------------------
(* C23 *)

\* C23: the line items gathered so far, and those of the response, are in page
\* order, in row order within a page, and no two of them share a rowId.
C23_LinesInPageOrderWithDistinctIds ==
    /\ \A k, l \in DOMAIN rw.all_rows :
          k < l =>
            /\ \/ rw.all_rows[k].page < rw.all_rows[l].page
               \/ /\ rw.all_rows[k].page = rw.all_rows[l].page
                  /\ rw.all_rows[k].row < rw.all_rows[l].row
            /\ rw.all_rows[k].rowId # rw.all_rows[l].rowId
    /\ rw.pc = "done" => rw.lines = rw.all_rows

\* a response with line items of several pages, among them row 11 of page 1
\* and row 1 of page 11
C23_Witness ==
    /\ rw.pc = "done"
    /\ \E k, l \in DOMAIN rw.lines :
          /\ rw.lines[k].page = 0 /\ rw.lines[k].row = 10
          /\ rw.lines[l].page = 10 /\ rw.lines[l].row = 0

(* C24 *)

\* the lines of the document are one item line that starts with its serial
\* number, whole or wrapped over two rows
SerialItemDocument ==
    LET merged == IF Len(fb.filtered) = 2 THEN fb.filtered[1] \o fb.filtered[2]
                  ELSE IF Len(fb.filtered) = 1 THEN fb.filtered[1] ELSE <<>>
    IN  merged = <<"1", "Cement", "2520", "149 Bag", "263.00", "39187.00">>

\* C24: of an item line that starts with a serial number and carries an HSN
\* code, a quantity with its unit and two-decimal amounts, on one line or
\* wrapped over two rows, the fallback parser makes an item whose quantity is
\* the number with the unit (149), whose hsn is the code (2520) and whose
\* taxableValue is the last two-decimal amount (39187.00).
C24_SerialLineYieldsUnitQuantity ==
    (fb.pc = "done" /\ SerialItemDocument) =>
        \E k \in DOMAIN fb.items :
            /\ QtyNumber(fb.items[k].item.quantity) = 149
            /\ fb.items[k].item.hsn = "2520"
            /\ fb.items[k].item.taxableValue = 3918700

(* C25 *)

\* C25: every line of parse_items_fallback goes into at most one item: the
\* lines of an item come before the lines of every later item, and the scan
\* index is past the last line of every item made, so that a line consumed
\* by a merge is not parsed again.
C25_EachLineInAtMostOneItem ==
    /\ \A k, l \in DOMAIN fb.items :
          k < l => fb.items[k].last < fb.items[l].first
    /\ \A k \in DOMAIN fb.items : fb.items[k].last < fb.i

(* C26 *)

\* C26: the scan loop of parse_items_fallback ends: every iteration either
\* leaves the loop or moves the line index forward by at least one, never past
\* the end of the lines, whether the line parsed alone, parsed after a merge
\* or was skipped; the number of lines left is a measure that falls with
\* every iteration.
C26_EveryIterationStopsOrAdvances ==
    [][fb.pc = "line" =>
          \/ fb'.pc = "done"
          \/ /\ fb'.pc = "line"
             /\ fb'.filtered = fb.filtered
             /\ fb'.i >= fb.i + 1
             /\ fb'.i <= Len(fb.filtered)]_vars

\* a scan that has parsed a line alone, parsed one after a merge, skipped one
\* and come to the end of the lines
C26_Witness ==
    /\ fb.pc = "done"
    /\ fb.i = Len(fb.filtered)
    /\ \E k, l \in DOMAIN fb.items :
          /\ fb.items[k].last = fb.items[k].first
          /\ fb.items[l].last > fb.items[l].first
    /\ \E n \in 0..(Len(fb.filtered) - 1) :
          \A k \in DOMAIN fb.items : n < fb.items[k].first \/ n > fb.items[k].last

(* C27 *)

\* C27: find_header_soft returns (None, None), or a header_idx that is an
\* index of rows and a start_parse_idx from 0 to header_idx + 1: the row
\* taken for the geometry exists, and parsing starts at most one row after it.
C27_HeaderIndicesWithinRows ==
    \/ hd.result = NoHeaderFound
    \/ /\ hd.result.found
       /\ 0 <= hd.result.header_idx
       /\ hd.result.header_idx < Len(hd.rows)
       /\ 0 <= hd.result.start_parse_idx
       /\ hd.result.start_parse_idx <= hd.result.header_idx + 1

\* the geometry row is a data row found by looking ahead: it is the last row
\* of the document, and parsing starts before it
C27_Witness ==
    /\ hd.pc = "done"
    /\ hd.result.found
    /\ hd.result.header_idx = Len(hd.rows) - 1
    /\ hd.result.start_parse_idx < hd.result.header_idx

(* C28 *)

\* C28: when build_response derives the tax split with split_tax_breakdown,
\* the parts add up to the tax: cgst + sgst + igst = tax for every tax of a
\* whole number of cents, with and without a place of supply.
C28_SplitAddsUpToTax ==
    (rc.pc = "done" /\ NoSplitPrinted /\ rc.totals.tax % 10 = 0) =>
        rc.totals.cgst + rc.totals.sgst + rc.totals.igst = rc.totals.tax

(* C29 *)

\* C29: the reconciled flag of a response goes with the gross it reports:
\* whenever totals.reconciled is false, totals.gross differs from the gross
\* computed from the line items by more than the tolerance.
C29_UnreconciledGrossDiffers ==
    (rc.pc = "done" /\ ~rc.totals.reconciled) =>
        Abs(rc.totals.gross - rc.totals.computedGross) > ReconcileTolerance

(* C30 *)

\* C30: get_ocr is a singleton accessor: over every interleaving of
\* concurrent calls at most one OCR engine instance is constructed, and every
\* call returns that instance.
C30_OneEngineReturnedByAllCalls ==
    /\ oc.made <= 1
    /\ \A e \in oc.returned : e # NoEngine /\ e = oc._OCR
    /\ Cardinality(oc.returned) <= 1

=============================================================================
